---- MODULE Spec2Model ----
(***************************************************************************)
(* A model of libkuksa-cpp's connection engine:                            *)
(*   - sdv::StateMachine<StateT>            (state_machine.hpp)            *)
(*   - kuksa::DatabrokerConnectionStateMachine                             *)
(*                                          (connection_state_machine.hpp) *)
(*   - kuksa::VSSClientImpl, its provider and subscriber loops             *)
(*                                          (vss_client.cpp)               *)
(* The specifications share the module: SpecEngine drives one generic      *)
(* StateMachine from concurrent callers, SpecConn drives the connection    *)
(* state machines through their trigger_* wrappers, SpecProvider and       *)
(* SpecSubscriber run the client's provider and subscriber loop threads    *)
(* with an application thread and the broker; FairSubscriber adds weak     *)
(* fairness for the threads, FairRetry runs the retry loop with one        *)
(* subscription, SpecRuntime lets the application subscribe after start(), *)
(* SpecBackoff runs the backoff arithmetic alone and SpecPublish runs      *)
(* publish_batch.  SpecSet runs set(), SpecTypes are_physically_compatible,*)
(* SpecWait wait_until_ready() beside the provider loop and SpecStart the  *)
(* application thread's start() and stop().  SpecHandlers, SpecOrder and   *)
(* SpecAsync run the generic machine with throwing handlers, with one      *)
(* triggering thread and with trigger_async; FairCallback and              *)
(* FairReentrant let handlers call back into the machine.  SpecDatapoint   *)
(* runs datapoint_to_qualified_value and SpecResolver the resolver's       *)
(* get(); SpecUnsubscribe adds unsubscribe() to the subscriber loop, and   *)
(* SpecClear and FairClear add clear_subscriptions().                      *)
(***************************************************************************)
EXTENDS Integers, Sequences, FiniteSets, TLC

VARIABLES
    \* ---- sdv::StateMachine<DoorState> under concurrent callers ----
    current_state,   \* StateMachine::current_state_
    mutex,           \* StateMachine::mutex_: 0 when free, else the holding caller
    pc,              \* per caller: position inside trigger_async/execute_transition
    event,           \* per caller: the event argument of the call in progress
    context,         \* per caller: the Context argument (the guards it makes true)
    chosen,          \* per caller: the transition selected by the call (0: none)
    old_state,       \* per caller: execute_transition's local old_state
    evaluated,       \* per caller: ids of the transitions whose guard the call ran
    handlers,        \* per caller: handlers the call has run, in order
    ret,             \* per caller: the call's result: "none", "true", "false",
                     \* or "exception" when a handler threw
    waiting,         \* per caller: the caller whose future its handler waits on (0: none)
    nested,          \* how many calls handlers have made into the machine
    observed,        \* what the latest current_state() call returned
    \* ---- DatabrokerConnectionStateMachine instances ----
    sm,              \* per instance: [state, last_error, is_connection_error]
    lastCall,        \* the latest trigger_* call: instance, trigger, instance before
    failure,         \* per instance: the error given to the call that entered FAILED
    active_during,   \* the instances that were ACTIVE at some instant of the
                     \* wait_until_ready() call in progress, or of the latest one
    \* ---- VSSClientImpl ----
    running,            \* running_
    actuator_handlers,  \* actuator_handlers_: the registrations, in order
    subscriptions,      \* subscriptions_: the subscribed signal ids
    subscriptions_mutex, \* subscriptions_mutex_: "free", or "clear" while
                        \* clear_subscriptions holds it
    starts,             \* how many times start() has launched the loops
    returned,           \* what the application's latest API call returned:
                        \* [call, status], NoReturn after a void call
    batch,              \* the publish_batch_impl call in progress, and its callback log
    setcall,            \* the latest set() call: its arguments and the RPCs it issued
    typecheck,          \* the latest are_physically_compatible call and its result
    converted,          \* the latest datapoint conversion: the datapoint and the qualified value
    resolver,           \* VSSResolverImpl: handle_cache_, the metadata queries made, the latest lookup
    app,                \* the application thread's position inside stop()
    metadata,           \* ListMetadata's answers to the latest validation
    frames,             \* how many frames the broker has sent on the streams
    \* provider_loop
    ppc,                \* position of the provider thread ("none": no thread)
    provider_context,   \* provider_context_: "null", "live" or "cancelled"
    pstream,            \* the provider stream: "none", "open" or "ended"
    pframe,             \* the frame the provider's Read would return next
    claimed,            \* ids of the claim request written to the stream
    ready,              \* provider_loop's local ready
    invoked,            \* actuation handlers invoked: signal ids, in order
    acks,               \* acknowledgement frames written
    \* subscriber_loop
    spc,                \* position of the subscriber thread ("none": no thread)
    retry_attempt,      \* subscriber_loop's local retry_attempt
    delay_ms,           \* subscriber_loop's local delay_ms while in scope
    subscriber_context, \* subscriber_context_: "null", "live" or "cancelled"
    sstream,            \* the subscription stream: "none", "open" or "ended"
    sframe,             \* the frame the subscriber's Read would return next
    requested,          \* ids listed in the attempt's SubscribeById request
    fetched,            \* GetValue's answer per id in this attempt
    pending,            \* datapoints the subscriber thread has yet to dispatch
    held_callback,      \* handle_subscription_update's local callback: the id
                        \* whose callback it copied, or NoCallback
    delivered           \* callbacks invoked in this attempt: <<id, source, quality>>

engineVars == <<current_state, mutex, pc, event, context, chosen, old_state,
                evaluated, handlers, ret,
               waiting, nested, observed>>
connVars == <<sm, lastCall, failure, active_during>>
appVars == <<running, actuator_handlers, subscriptions, subscriptions_mutex, starts, returned, batch, setcall, typecheck, converted, resolver, app, metadata, frames>>
providerVars == <<ppc, provider_context, pstream, pframe, claimed, ready, invoked, acks>>
subscriberVars == <<spc, retry_attempt, delay_ms, subscriber_context, sstream, sframe,
                    requested, fetched, pending, held_callback, delivered>>
clientVars == <<appVars, providerVars, subscriberVars>>
vars == <<engineVars, connVars, clientVars>>

(***************************************************************************)
(* Bounds of the model.                                                    *)
(***************************************************************************)
\* No callback copied: the std::function local is empty.
NoCallback == 0

NumCallers == 2

Callers == 1..NumCallers

(***************************************************************************)
(* sdv::StateMachine: the transition table and its lookup.                 *)
(***************************************************************************)

\* A Transition object: from_state, to_state, trigger, condition, action.
\* condition is "none" for an empty std::function, else the guard's name;
\* action tells whether an action function is set.
Tr(id, from, to, trig, cond, act) ==
    [id |-> id, from_state |-> from, to_state |-> to, trigger |-> trig,
     condition |-> cond, action |-> act]

\* static_cast<int>(state) of the DoorState enum used by the engine's tests.
DoorStates == {"Closed", "Opening", "Open", "Locked"}

StateNum(s) ==
    CASE s = "Closed" -> 0
      [] s = "Opening" -> 1
      [] s = "Open" -> 2
      [] s = "Locked" -> 4
      [] s = "DISCONNECTED" -> 0
      [] s = "CONNECTING" -> 1
      [] s = "ESTABLISHING" -> 2
      [] s = "ACTIVE" -> 3
      [] s = "FAILED" -> 4

\* make_transition_key: to_string(int(state)) + ":" + trigger.  The decimal
\* digits never hold ':', so the string splits back into exactly this pair.
make_transition_key(state, trigger) == <<StateNum(state), trigger>>

\* add_transition: push_back onto the key's vector; a missing key reads <<>>.
add_transition(map, tr) ==
    LET key == make_transition_key(tr.from_state, tr.trigger)
    IN  [k \in DOMAIN map \cup {key} |->
            IF k = key
            THEN (IF key \in DOMAIN map THEN Append(map[key], tr) ELSE <<tr>>)
            ELSE map[k]]

RECURSIVE AddTransitions(_, _, _)
AddTransitions(map, regs, i) ==
    IF i > Len(regs) THEN map
    ELSE AddTransitions(add_transition(map, regs[i]), regs, i + 1)

EmptyMap == [k \in {} |-> <<>>]

\* transitions_.find(key): the bucket, <<>> standing for end().
Find(map, key) == IF key \in DOMAIN map THEN map[key] ELSE <<>>

\* transition->condition(context): the guard reads only the context.
Condition(name, ctx) == name \in ctx

\* A plausible slip: the condition is never consulted, the first entry fires.
FindValidIgnoreGuards(bucket, i, ctx, acc) ==
    IF i > Len(bucket) THEN acc ELSE [index |-> i, evaluated |-> acc.evaluated]

\* A plausible slip: the loop keeps going and the last passing entry wins.
RECURSIVE FindValidLast(_, _, _, _)
FindValidLast(bucket, i, ctx, acc) ==
    IF i > Len(bucket) THEN acc
    ELSE IF bucket[i].condition # "none" /\ ~Condition(bucket[i].condition, ctx)
         THEN FindValidLast(bucket, i + 1, ctx,
                            [acc EXCEPT !.evaluated = Append(@, bucket[i].id)])
         ELSE FindValidLast(bucket, i + 1, ctx,
                  [index |-> i,
                   evaluated |-> IF bucket[i].condition # "none"
                                 THEN Append(acc.evaluated, bucket[i].id)
                                 ELSE acc.evaluated])

\* execute_transition's for loop: entries in vector order, a failing
\* condition continues, the first other entry is taken.  index 0: none taken.
RECURSIVE FindValid(_, _, _, _)
FindValid(bucket, i, ctx, acc) ==
    IF i > Len(bucket) THEN acc
    ELSE IF bucket[i].condition # "none" /\ ~Condition(bucket[i].condition, ctx)
         THEN FindValid(bucket, i + 1, ctx,
                        [acc EXCEPT !.evaluated = Append(@, bucket[i].id)])
         ELSE [index |-> i,
               evaluated |-> IF bucket[i].condition # "none"
                             THEN Append(acc.evaluated, bucket[i].id)
                             ELSE acc.evaluated]

NoneFound == [index |-> 0, evaluated |-> <<>>]

\* The door machine of tests/test_transitions.cpp: three guarded entries
\* share (Closed, "action"), as in TransitionPriority.
DoorRegistrations ==
    << Tr(1, "Closed", "Locked", "action", "g1", FALSE),
       Tr(2, "Closed", "Opening", "action", "g2", TRUE),
       Tr(3, "Closed", "Open", "action", "g1", FALSE),
       Tr(4, "Closed", "Opening", "open", "none", TRUE),
       Tr(5, "Opening", "Open", "opened", "none", FALSE),
       Tr(6, "Open", "Closed", "close", "none", TRUE),
       Tr(7, "Locked", "Closed", "unlock", "g2", FALSE) >>

DoorTransitions == AddTransitions(EmptyMap, DoorRegistrations, 1)

\* The events callers send; "lock" has no transition anywhere.
DoorTriggers == {"action", "open", "opened", "close", "unlock", "lock"}
Guards == {"g1", "g2"}

\* state_definitions_: which states have an entry_action / exit_action.
DoorDefinitions ==
    [s \in DoorStates |->
        [entry_action |-> s \in {"Opening", "Locked"},
         exit_action |-> s \in {"Closed"}]]

Registration(id) == DoorRegistrations[id]

\* exit_state / enter_state: run the state's handler when one is defined.
exit_state(defs, state, log) ==
    IF state \in DOMAIN defs /\ defs[state].exit_action
    THEN Append(log, <<"on_exit", state>>) ELSE log

enter_state(defs, state, log) ==
    IF state \in DOMAIN defs /\ defs[state].entry_action
    THEN Append(log, <<"on_entry", state>>) ELSE log

InitEngineVars ==
    /\ current_state = "Closed"
    /\ mutex = 0
    /\ pc = [t \in Callers |-> "idle"]
    /\ event = [t \in Callers |-> "none"]
    /\ context = [t \in Callers |-> {}]
    /\ chosen = [t \in Callers |-> 0]
    /\ old_state = [t \in Callers |-> "none"]
    /\ evaluated = [t \in Callers |-> <<>>]
    /\ handlers = [t \in Callers |-> <<>>]
    /\ ret = [t \in Callers |-> "none"]
    /\ waiting = [t \in Callers |-> 0]
    /\ nested = 0
    /\ observed = "none"

\* trigger_async: std::async launches execute_transition(event, context) on
\* a thread of its own; trigger() is trigger_async followed by future.get().
trigger_async(t, ev, ctx) ==
    /\ pc[t] = "idle"
    /\ pc' = [pc EXCEPT ![t] = "queued"]
    /\ event' = [event EXCEPT ![t] = ev]
    /\ context' = [context EXCEPT ![t] = ctx]
    /\ evaluated' = [evaluated EXCEPT ![t] = <<>>]
    /\ handlers' = [handlers EXCEPT ![t] = <<>>]
    /\ ret' = [ret EXCEPT ![t] = "none"]
    /\ UNCHANGED <<chosen, old_state>>
    /\ UNCHANGED <<current_state, mutex, waiting, nested, observed,
                   connVars, clientVars>>

\* execute_transition, first critical section: lock, find the bucket of
\* (current_state_, event), run the guards; return false when none is valid.
Select(t) ==
    /\ pc[t] = "queued"
    /\ mutex = 0
    /\ LET bucket == Find(DoorTransitions,
                          make_transition_key(current_state, event[t]))
           r == FindValid(bucket, 1, context[t], NoneFound)
       IN  /\ evaluated' = [evaluated EXCEPT ![t] = r.evaluated]
           /\ IF r.index = 0
              THEN /\ ret' = [ret EXCEPT ![t] = "false"]
                   /\ pc' = [pc EXCEPT ![t] = "idle"]
                   /\ event' = [event EXCEPT ![t] = "none"]
                   /\ context' = [context EXCEPT ![t] = {}]
                   /\ UNCHANGED <<mutex, chosen, old_state>>
              ELSE /\ chosen' = [chosen EXCEPT ![t] = bucket[r.index].id]
                   /\ old_state' = [old_state EXCEPT ![t] = current_state]
                   /\ mutex' = t
                   /\ pc' = [pc EXCEPT ![t] = "exit"]
                   /\ UNCHANGED <<ret, event, context>>
    /\ UNCHANGED <<current_state, handlers, waiting, nested, observed,
                   connVars, clientVars>>

\* A slip: the new state is stored before the handlers have run.
ExitStateCommitsEarly(t) ==
    /\ pc[t] = "exit"
    /\ handlers' = [handlers EXCEPT ![t] = exit_state(DoorDefinitions, old_state[t], @)]
    /\ current_state' = Registration(chosen[t]).to_state
    /\ IF Registration(chosen[t]).action
       THEN mutex' = 0 /\ pc' = [pc EXCEPT ![t] = "action"]
       ELSE UNCHANGED mutex /\ pc' = [pc EXCEPT ![t] = "enter"]
    /\ UNCHANGED <<event, context, chosen, old_state, evaluated,
                   ret, waiting, nested, observed, connVars, clientVars>>

\* A slip: the action is run without releasing the mutex.
ExitStateKeepsLock(t) ==
    /\ pc[t] = "exit"
    /\ handlers' = [handlers EXCEPT ![t] = exit_state(DoorDefinitions, old_state[t], @)]
    /\ UNCHANGED mutex
    /\ pc' = [pc EXCEPT ![t] = IF Registration(chosen[t]).action THEN "action" ELSE "enter"]
    /\ UNCHANGED <<current_state, event, context, chosen, old_state, evaluated,
                   ret, waiting, nested, observed, connVars, clientVars>>

\* exit_state(old_state); then, with an action, lock.unlock() before it runs.
ExitState(t) ==
    /\ pc[t] = "exit"
    /\ handlers' = [handlers EXCEPT ![t] = exit_state(DoorDefinitions, old_state[t], @)]
    /\ IF Registration(chosen[t]).action
       THEN mutex' = 0 /\ pc' = [pc EXCEPT ![t] = "action"]
       ELSE UNCHANGED mutex /\ pc' = [pc EXCEPT ![t] = "enter"]
    /\ UNCHANGED <<current_state, event, context, chosen, old_state, evaluated,
                   ret, waiting, nested, observed,
                   connVars, clientVars>>

\* transition->action(context), run with the mutex released.
Action(t) ==
    /\ pc[t] = "action"
    /\ handlers' = [handlers EXCEPT ![t] = Append(@, <<"action", chosen[t]>>)]
    /\ pc' = [pc EXCEPT ![t] = "relock"]
    /\ UNCHANGED <<current_state, mutex, event, context, chosen, old_state,
                   evaluated, ret, waiting, nested, observed,
                   connVars, clientVars>>

\* lock.lock() after the action.
Relock(t) ==
    /\ pc[t] = "relock"
    /\ mutex = 0
    /\ mutex' = t
    /\ pc' = [pc EXCEPT ![t] = "enter"]
    /\ UNCHANGED <<current_state, event, context, chosen, old_state, evaluated,
                   handlers, ret, waiting, nested, observed,
                   connVars, clientVars>>

\* enter_state(to_state); current_state_ = to_state; return true (unlocks).
EnterState(t) ==
    /\ pc[t] = "enter"
    /\ LET tr == Registration(chosen[t])
       IN  /\ handlers' = [handlers EXCEPT
                             ![t] = enter_state(DoorDefinitions, tr.to_state, @)]
           /\ current_state' = tr.to_state
    /\ mutex' = 0
    /\ ret' = [ret EXCEPT ![t] = "true"]
    /\ pc' = [pc EXCEPT ![t] = "idle"]
    /\ event' = [event EXCEPT ![t] = "none"]
    /\ context' = [context EXCEPT ![t] = {}]
    /\ chosen' = [chosen EXCEPT ![t] = 0]
    /\ old_state' = [old_state EXCEPT ![t] = "none"]
    /\ UNCHANGED <<evaluated, waiting, nested, observed,
                   connVars, clientVars>>

\* What a call that ends leaves behind: execute_transition's locals are gone.
Unwind(t, result) ==
    /\ ret' = [ret EXCEPT ![t] = result]
    /\ pc' = [pc EXCEPT ![t] = "idle"]
    /\ event' = [event EXCEPT ![t] = "none"]
    /\ context' = [context EXCEPT ![t] = {}]
    /\ chosen' = [chosen EXCEPT ![t] = 0]
    /\ old_state' = [old_state EXCEPT ![t] = "none"]

\* A slip: the mutex is locked by hand, and an exception leaves it locked.
ExitStateThrowsKeepsLock(t) ==
    /\ pc[t] = "exit"
    /\ DoorDefinitions[old_state[t]].exit_action
    /\ handlers' = [handlers EXCEPT ![t] = exit_state(DoorDefinitions, old_state[t], @)]
    /\ Unwind(t, "exception")
    /\ UNCHANGED <<current_state, mutex, evaluated, waiting, nested, observed,
                   connVars, clientVars>>

\* exit_action() throws: the exception unwinds execute_transition, whose
\* unique_lock owns the mutex and releases it; std::async keeps the
\* exception in the future and get() rethrows it to trigger()'s caller.
ExitStateThrows(t) ==
    /\ pc[t] = "exit"
    /\ DoorDefinitions[old_state[t]].exit_action
    /\ handlers' = [handlers EXCEPT ![t] = exit_state(DoorDefinitions, old_state[t], @)]
    /\ mutex' = 0
    /\ Unwind(t, "exception")
    /\ UNCHANGED <<current_state, evaluated, waiting, nested, observed,
                   connVars, clientVars>>

\* transition->action(context) throws between lock.unlock() and
\* lock.lock(): the unique_lock owns nothing, the mutex is left alone.
ActionThrows(t) ==
    /\ pc[t] = "action"
    /\ handlers' = [handlers EXCEPT ![t] = Append(@, <<"action", chosen[t]>>)]
    /\ Unwind(t, "exception")
    /\ UNCHANGED <<current_state, mutex, evaluated, waiting, nested, observed,
                   connVars, clientVars>>

\* entry_action() throws inside enter_state: current_state_ = to_state is
\* never reached, the unique_lock releases the mutex.
EnterStateThrows(t) ==
    /\ pc[t] = "enter"
    /\ DoorDefinitions[Registration(chosen[t]).to_state].entry_action
    /\ handlers' = [handlers EXCEPT
                      ![t] = enter_state(DoorDefinitions, Registration(chosen[t]).to_state, @)]
    /\ mutex' = 0
    /\ Unwind(t, "exception")
    /\ UNCHANGED <<current_state, evaluated, waiting, nested, observed,
                   connVars, clientVars>>

\* current_state() from another thread: lock_guard, read, unlock.
current_state_call ==
    /\ mutex = 0
    /\ observed' = current_state
    /\ UNCHANGED <<current_state, mutex, pc, event, context, chosen, old_state,
                   evaluated, handlers, ret, waiting, nested, connVars, clientVars>>

EngineStep(t) ==
    \/ Select(t)
    \/ ExitState(t)
    \/ Action(t)
    \/ Relock(t)
    \/ EnterState(t)

\* Concurrent callers whose guards all pass, handlers that may throw, and
\* a thread that reads current_state().
NextHandlers ==
    \/ \E t \in Callers, ev \in DoorTriggers : trigger_async(t, ev, Guards)
    \/ \E t \in Callers : EngineStep(t)
    \/ \E t \in Callers : ExitStateThrows(t)
    \/ \E t \in Callers : ActionThrows(t)
    \/ \E t \in Callers : EnterStateThrows(t)
    \/ current_state_call

\* One thread calls trigger() again and again while another reads
\* current_state().
NextOrder ==
    \/ \E ev \in DoorTriggers, ctx \in SUBSET Guards : trigger_async(1, ev, ctx)
    \/ Select(1)
    \/ ExitState(1)
    \/ Action(1)
    \/ Relock(1)
    \/ EnterState(1)
    \/ current_state_call

MaxNested == 2

\* A handler running in call t calls trigger(ev, ctx) on the same machine:
\* trigger_async launches execute_transition in slot u, and the handler
\* blocks in future.get().  where is t's position while it waits.
HandlerCallsTrigger(t, u, ev, ctx, where) ==
    /\ u # t
    /\ pc[u] = "idle"
    /\ nested < MaxNested
    /\ nested' = nested + 1
    /\ waiting' = [waiting EXCEPT ![t] = u]
    /\ pc' = [pc EXCEPT ![t] = where, ![u] = "queued"]
    /\ event' = [event EXCEPT ![u] = ev]
    /\ context' = [context EXCEPT ![u] = ctx]
    /\ evaluated' = [evaluated EXCEPT ![u] = <<>>]
    /\ handlers' = [handlers EXCEPT ![u] = <<>>]
    /\ ret' = [ret EXCEPT ![u] = "none"]
    /\ UNCHANGED <<current_state, mutex, chosen, old_state, observed,
                   connVars, clientVars>>

\* future.get() returns in the handler once the launched call has ended.
HandlerResumes(t, from, to) ==
    /\ pc[t] = from
    /\ pc[waiting[t]] = "idle"
    /\ pc' = [pc EXCEPT ![t] = to]
    /\ waiting' = [waiting EXCEPT ![t] = 0]
    /\ UNCHANGED <<current_state, mutex, event, context, chosen, old_state,
                   evaluated, handlers, ret, nested, observed, connVars, clientVars>>

\* The transition action, running with the mutex released, calls trigger().
ActionCallsTrigger(t, u, ev, ctx) ==
    /\ pc[t] = "action"
    /\ HandlerCallsTrigger(t, u, ev, ctx, "action_wait")

ActionResumes(t) == HandlerResumes(t, "action_wait", "action")

\* The transition action calls current_state(): it waits for mutex_ ...
ActionCallsCurrentState(t) ==
    /\ pc[t] = "action"
    /\ nested < MaxNested
    /\ nested' = nested + 1
    /\ pc' = [pc EXCEPT ![t] = "action_read"]
    /\ UNCHANGED <<current_state, mutex, event, context, chosen, old_state,
                   evaluated, handlers, ret, waiting, observed, connVars, clientVars>>

\* ... and reads current_state_ under the lock_guard.
ActionReadReturns(t) ==
    /\ pc[t] = "action_read"
    /\ mutex = 0
    /\ observed' = current_state
    /\ pc' = [pc EXCEPT ![t] = "action"]
    /\ UNCHANGED <<current_state, mutex, event, context, chosen, old_state,
                   evaluated, handlers, ret, waiting, nested, connVars, clientVars>>

\* One application thread calls trigger() (slot 1); transition actions
\* call back into the machine, each call running in a free slot.
CallbackStep(t) ==
    \/ EngineStep(t)
    \/ ActionResumes(t)
    \/ ActionReadReturns(t)

NextCallback ==
    \/ \E ev \in DoorTriggers, ctx \in SUBSET Guards : trigger_async(1, ev, ctx)
    \/ \E t \in Callers : CallbackStep(t)
    \/ \E t, u \in Callers, ev \in DoorTriggers, ctx \in SUBSET Guards :
          ActionCallsTrigger(t, u, ev, ctx)
    \/ \E t \in Callers : ActionCallsCurrentState(t)

\* entry_action(), run by enter_state with the mutex held, calls trigger().
EnterStateCallsTrigger(t, u, ev, ctx) ==
    /\ pc[t] = "enter"
    /\ DoorDefinitions[Registration(chosen[t]).to_state].entry_action
    /\ HandlerCallsTrigger(t, u, ev, ctx, "enter_wait")

\* exit_action(), run by exit_state with the mutex held, calls trigger().
ExitStateCallsTrigger(t, u, ev, ctx) ==
    /\ pc[t] = "exit"
    /\ DoorDefinitions[old_state[t]].exit_action
    /\ HandlerCallsTrigger(t, u, ev, ctx, "exit_wait")

\* Where a handler waits in future.get(), and where it goes on from.
WaitPoints ==
    {<<"action_wait", "action">>, <<"enter_wait", "enter">>, <<"exit_wait", "exit">>}

ReentrantStep(t) ==
    \/ EngineStep(t)
    \/ \E p \in WaitPoints : HandlerResumes(t, p[1], p[2])

\* One application thread calls trigger() (slot 1); actions and state
\* handlers call trigger() on the machine they belong to.
NextReentrant ==
    \/ \E ev \in DoorTriggers, ctx \in SUBSET Guards : trigger_async(1, ev, ctx)
    \/ \E t \in Callers : ReentrantStep(t)
    \/ \E t, u \in Callers, ev \in DoorTriggers, ctx \in SUBSET Guards :
          ActionCallsTrigger(t, u, ev, ctx)
    \/ \E t, u \in Callers, ev \in DoorTriggers, ctx \in SUBSET Guards :
          EnterStateCallsTrigger(t, u, ev, ctx)
    \/ \E t, u \in Callers, ev \in DoorTriggers, ctx \in SUBSET Guards :
          ExitStateCallsTrigger(t, u, ev, ctx)

\* One thread calls trigger_async once per caller slot, in slot order,
\* without waiting on any future; each std::async thread runs when it runs.
Launched(t) == pc[t] # "idle" \/ ret[t] # "none"

NextAsync ==
    \/ \E t \in Callers, ev \in DoorTriggers :
          /\ \A u \in Callers : u < t => Launched(u)
          /\ ~Launched(t)
          /\ trigger_async(t, ev, {})
    \/ \E t \in Callers : EngineStep(t)

NextEngine ==
    \/ \E t \in Callers, ev \in DoorTriggers, ctx \in SUBSET Guards :
          trigger_async(t, ev, ctx)
    \/ \E t \in Callers : Select(t)
    \/ \E t \in Callers : ExitState(t)
    \/ \E t \in Callers : Action(t)
    \/ \E t \in Callers : Relock(t)
    \/ \E t \in Callers : EnterState(t)

(***************************************************************************)
(* kuksa::DatabrokerConnectionStateMachine                                 *)
(***************************************************************************)
ConnStates == {"DISCONNECTED", "CONNECTING", "ESTABLISHING", "ACTIVE", "FAILED"}
ConnNames == {"Provider", "Subscriber"}

\* absl::Status, as its code and a tag for its message.
St(code, msg) == [code |-> code, msg |-> msg]
OkStatus == St("OK", "")

\* A slip in the stop loop: FAILED left out of the initializer list.
ConnRegistrationsNoFailedStop ==
    << Tr(1, "DISCONNECTED", "CONNECTING", "start", "none", FALSE),
       Tr(2, "CONNECTING", "ESTABLISHING", "channel_ready", "none", FALSE),
       Tr(3, "CONNECTING", "FAILED", "connect_failed", "none", FALSE),
       Tr(4, "ESTABLISHING", "ACTIVE", "stream_ready", "none", FALSE),
       Tr(5, "ESTABLISHING", "FAILED", "stream_failed", "none", FALSE),
       Tr(6, "ACTIVE", "FAILED", "stream_ended", "none", FALSE),
       Tr(7, "FAILED", "CONNECTING", "retry", "none", FALSE),
       Tr(8, "CONNECTING", "DISCONNECTED", "stop", "none", FALSE),
       Tr(9, "ESTABLISHING", "DISCONNECTED", "stop", "none", FALSE),
       Tr(10, "ACTIVE", "DISCONNECTED", "stop", "none", FALSE) >>

\* init_state_machine: the add_transition calls, in order.
ConnRegistrations ==
    << Tr(1, "DISCONNECTED", "CONNECTING", "start", "none", FALSE),
       Tr(2, "CONNECTING", "ESTABLISHING", "channel_ready", "none", FALSE),
       Tr(3, "CONNECTING", "FAILED", "connect_failed", "none", FALSE),
       Tr(4, "ESTABLISHING", "ACTIVE", "stream_ready", "none", FALSE),
       Tr(5, "ESTABLISHING", "FAILED", "stream_failed", "none", FALSE),
       Tr(6, "ACTIVE", "FAILED", "stream_ended", "none", FALSE),
       Tr(7, "FAILED", "CONNECTING", "retry", "none", FALSE),
       Tr(8, "CONNECTING", "DISCONNECTED", "stop", "none", FALSE),
       Tr(9, "ESTABLISHING", "DISCONNECTED", "stop", "none", FALSE),
       Tr(10, "ACTIVE", "DISCONNECTED", "stop", "none", FALSE),
       Tr(11, "FAILED", "DISCONNECTED", "stop", "none", FALSE) >>

ConnTransitions == AddTransitions(EmptyMap, ConnRegistrations, 1)

\* state_machine_->trigger(event) on a machine whose transitions have no
\* guard and no action: execute_transition runs whole under the mutex.
SmTrigger(state, ev) ==
    LET bucket == Find(ConnTransitions, make_transition_key(state, ev))
        r == FindValid(bucket, 1, {}, NoneFound)
    IN  IF r.index = 0 THEN state ELSE bucket[r.index].to_state

\* The constructor: DISCONNECTED, last_error_ OK, is_connection_error_ false.
NewConnectionStateMachine ==
    [state |-> "DISCONNECTED", last_error |-> OkStatus, is_connection_error |-> FALSE]

record_error(m, error, is_connection_error) ==
    [m EXCEPT !.last_error = error, !.is_connection_error = is_connection_error]

trigger_start(m) == [m EXCEPT !.state = SmTrigger(m.state, "start")]

trigger_channel_ready(m) == [m EXCEPT !.state = SmTrigger(m.state, "channel_ready")]

trigger_connect_failed(m, error) ==
    LET r == record_error(m, error, TRUE)
    IN  [r EXCEPT !.state = SmTrigger(r.state, "connect_failed")]

trigger_stream_ready(m) ==
    LET r == [m EXCEPT !.last_error = OkStatus]
    IN  [r EXCEPT !.state = SmTrigger(r.state, "stream_ready")]

trigger_stream_failed(m, error, is_connection_error) ==
    LET r == record_error(m, error, is_connection_error)
    IN  [r EXCEPT !.state = SmTrigger(r.state, "stream_failed")]

trigger_stream_ended(m, error) ==
    LET r == record_error(m, error, TRUE)
    IN  [r EXCEPT !.state = SmTrigger(r.state, "stream_ended")]

trigger_retry(m) == [m EXCEPT !.state = SmTrigger(m.state, "retry")]

trigger_stop(m) == [m EXCEPT !.state = SmTrigger(m.state, "stop")]

\* status(): the operational status of the current state.
status(m) ==
    CASE m.state = "DISCONNECTED" -> St("FailedPrecondition", "not started")
      [] m.state = "CONNECTING" -> St("Unavailable", "Connecting to databroker...")
      [] m.state = "ESTABLISHING" -> St("Unavailable", "in progress...")
      [] m.state = "ACTIVE" -> OkStatus
      [] m.state = "FAILED" -> m.last_error

ConnTriggers == {"start", "channel_ready", "connect_failed", "stream_ready",
                 "stream_failed", "stream_ended", "retry", "stop"}

\* One trigger_* call on instance n, with the bookkeeping the claims read.
Wrapper(m, trig, error, is_connection_error) ==
    CASE trig = "start" -> trigger_start(m)
      [] trig = "channel_ready" -> trigger_channel_ready(m)
      [] trig = "connect_failed" -> trigger_connect_failed(m, error)
      [] trig = "stream_ready" -> trigger_stream_ready(m)
      [] trig = "stream_failed" -> trigger_stream_failed(m, error, is_connection_error)
      [] trig = "stream_ended" -> trigger_stream_ended(m, error)
      [] trig = "retry" -> trigger_retry(m)
      [] trig = "stop" -> trigger_stop(m)

\* The positions of a thread inside wait_until_ready(): one per instance.
WaitsOn == [Provider |-> "wait_provider", Subscriber |-> "wait_subscriber"]
InWaitUntilReady == app \in {WaitsOn[n] : n \in DOMAIN WaitsOn}

ConnCall(n, trig, error, is_connection_error) ==
    LET after == Wrapper(sm[n], trig, error, is_connection_error)
    IN  /\ sm' = [sm EXCEPT ![n] = after]
        /\ active_during' = IF InWaitUntilReady /\ after.state = "ACTIVE"
                            THEN active_during \cup {n}
                            ELSE active_during
        /\ lastCall' = [name |-> n, trigger |-> trig, before |-> sm[n]]
        /\ failure' = IF after.state = "FAILED" /\ sm[n].state # "FAILED"
                      THEN [failure EXCEPT ![n] = error]
                      ELSE failure

InitConnVars ==
    /\ sm = [n \in ConnNames |-> NewConnectionStateMachine]
    /\ lastCall = [name |-> "Provider", trigger |-> "none",
                   before |-> NewConnectionStateMachine]
    /\ failure = [n \in ConnNames |-> OkStatus]
    /\ active_during = {}

\* The non-OK statuses the client hands to the wrappers.
ValidationError == St("InvalidArgument", "Actuator validation failed")
ConnectionTimeout == St("Unavailable", "Connection timeout")
StreamError == St("Unavailable", "stream error")
ErrorArgs == {ValidationError, ConnectionTimeout, StreamError}

CallStart(n) == ConnCall(n, "start", OkStatus, FALSE) /\ UNCHANGED <<engineVars, clientVars>>

CallChannelReady(n) ==
    /\ ConnCall(n, "channel_ready", OkStatus, FALSE)
    /\ UNCHANGED <<engineVars, clientVars>>

CallConnectFailed(n, e) ==
    ConnCall(n, "connect_failed", e, TRUE) /\ UNCHANGED <<engineVars, clientVars>>

CallStreamReady(n) ==
    ConnCall(n, "stream_ready", OkStatus, FALSE) /\ UNCHANGED <<engineVars, clientVars>>

CallStreamFailed(n, e, c) ==
    ConnCall(n, "stream_failed", e, c) /\ UNCHANGED <<engineVars, clientVars>>

CallStreamEnded(n, e) ==
    ConnCall(n, "stream_ended", e, TRUE) /\ UNCHANGED <<engineVars, clientVars>>

CallRetry(n) == ConnCall(n, "retry", OkStatus, FALSE) /\ UNCHANGED <<engineVars, clientVars>>

CallStop(n) == ConnCall(n, "stop", OkStatus, FALSE) /\ UNCHANGED <<engineVars, clientVars>>

\* SpecConn drives one instance; the instances share no state.
ConnDriven == {"Provider"}

NextConn ==
    \/ \E n \in ConnDriven : CallStart(n)
    \/ \E n \in ConnDriven : CallChannelReady(n)
    \/ \E n \in ConnDriven, e \in ErrorArgs : CallConnectFailed(n, e)
    \/ \E n \in ConnDriven : CallStreamReady(n)
    \/ \E n \in ConnDriven, e \in ErrorArgs, c \in BOOLEAN : CallStreamFailed(n, e, c)
    \/ \E n \in ConnDriven, e \in ErrorArgs : CallStreamEnded(n, e)
    \/ \E n \in ConnDriven : CallRetry(n)
    \/ \E n \in ConnDriven : CallStop(n)

\* VSSClientImpl's constructor: not running, nothing registered, no thread.
\* A frame on a stream: its kind and the signal ids it carries.
Frame(kind, ids) == [kind |-> kind, ids |-> ids]
NoFrame == Frame("none", <<>>)

\* What an API call handed back to the application: the call and its Status.
Returned(call, s) == [call |-> call, status |-> s]
NoReturn == Returned("none", OkStatus)

\* publish_batch_impl's arguments and locals: the keys of values in
\* iteration order, how many of them the loop has passed, the errors map
\* and whether a callback was given.  rpcs logs the PublishValue calls made
\* (id and outcome), calls the argument of each invocation of the callback.
Batch(values, callback) ==
    [values |-> values, done |-> 0, errors |-> <<>>, callback |-> callback,
     rpcs |-> <<>>, calls |-> <<>>]
NoBatch == Batch(<<>>, FALSE)

\* One set_impl call: signal_id, qvalue (its quality and whether its value
\* is empty) and signal_class, with the unary RPCs the call issued.
SetCall(signal_id, quality, empty, signal_class, rpcs) ==
    [signal_id |-> signal_id, quality |-> quality, empty |-> empty,
     signal_class |-> signal_class, rpcs |-> rpcs]
NoSet == SetCall(0, "VALID", FALSE, "UNKNOWN", <<>>)

\* One are_physically_compatible(logical, physical) call with its result;
\* called is FALSE until the first call.
TypeCheck(logical, physical, result) ==
    [logical |-> logical, physical |-> physical, result |-> result, called |-> TRUE]
NoTypeCheck ==
    [logical |-> "UNSPECIFIED", physical |-> "UNSPECIFIED", result |-> FALSE, called |-> FALSE]

\* DynamicSignalHandle: path, id, type and class; NoHandle: no handle.
Handle(path, id, type, signal_class) ==
    [path |-> path, id |-> id, type |-> type, signal_class |-> signal_class]
NoHandle == Handle("", -1, "UNSPECIFIED", "UNKNOWN")

\* The paths the application resolves.
ResolverPaths == {"A", "B"}

\* One get<T>/get_dynamic call: what was asked, the Result it returned and
\* whether it sent a ListMetadata query.
Lookup(call, path, T, code, handle, queried) ==
    [call |-> call, path |-> path, T |-> T, code |-> code, handle |-> handle,
     queried |-> queried]

\* VSSResolverImpl after create(): connected, handle_cache_ empty.
NewResolver ==
    [handle_cache |-> [p \in ResolverPaths |-> NoHandle],
     queries |-> 0,
     lookup |-> Lookup("none", "", "UNSPECIFIED", "OK", NoHandle, FALSE)]

\* vss::types::Value by its alternative and content; std::monostate is empty.
Value(kind, payload) == [kind |-> kind, payload |-> payload]
Monostate == Value("monostate", <<>>)

\* kuksa.val.v2.Value: the case of its typed_value oneof and the content.
ProtoValue(typed_value, payload) == [typed_value |-> typed_value, payload |-> payload]
NoProtoValue == ProtoValue("absent", <<>>)

\* A Datapoint off the wire: has_timestamp(), has_value() and value().
WireDatapoint(ts, val, value) == [has_timestamp |-> ts, has_value |-> val, value |-> value]

\* One datapoint_to_qualified_value call: its argument and its result.
Conversion(dp, qvalue) == [dp |-> dp, qvalue |-> qvalue, called |-> TRUE]
NoConversion ==
    [dp |-> WireDatapoint(FALSE, FALSE, NoProtoValue),
     qvalue |-> [value |-> Monostate, quality |-> "NOT_AVAILABLE"], called |-> FALSE]

\* delay_ms of the n-th consecutive attempt; NoDelay outside the backoff block.
\* slept: the part of it already slept, in the 100 ms slices of the sleep loop.
Delay(n, ms) == [n |-> n, ms |-> ms, slept |-> 0]
NoDelay == Delay(0, 0)

InitClientVars ==
    /\ running = FALSE
    /\ actuator_handlers = <<>>
    /\ subscriptions = {}
    /\ subscriptions_mutex = "free"
    /\ starts = 0
    /\ returned = NoReturn
    /\ batch = NoBatch
    /\ setcall = NoSet
    /\ typecheck = NoTypeCheck
    /\ converted = NoConversion
    /\ resolver = NewResolver
    /\ app = "idle"
    /\ metadata = <<>>
    /\ frames = 0
    /\ ppc = "none"
    /\ provider_context = "null"
    /\ pstream = "none"
    /\ pframe = NoFrame
    /\ claimed = <<>>
    /\ ready = FALSE
    /\ invoked = <<>>
    /\ acks = 0
    /\ spc = "none"
    /\ retry_attempt = 0
    /\ delay_ms = NoDelay
    /\ subscriber_context = "null"
    /\ sstream = "none"
    /\ sframe = NoFrame
    /\ requested = {}
    /\ fetched = <<>>
    /\ pending = <<>>
    /\ held_callback = NoCallback
    /\ delivered = <<>>

InitEngine == InitEngineVars /\ InitConnVars /\ InitClientVars
InitConn == InitEngineVars /\ InitConnVars /\ InitClientVars

SpecEngine == InitEngine /\ [][NextEngine]_vars
SpecConn == InitConn /\ [][NextConn]_vars
SpecHandlers == InitEngine /\ [][NextHandlers]_vars
SpecOrder == InitEngine /\ [][NextOrder]_vars
SpecAsync == InitEngine /\ [][NextAsync]_vars

\* Every thread that can take a step of a call in progress takes it.
FairCallback ==
    /\ InitEngine
    /\ [][NextCallback]_vars
    /\ \A t \in Callers : WF_vars(CallbackStep(t))

FairReentrant ==
    /\ InitEngine
    /\ [][NextReentrant]_vars
    /\ \A t \in Callers : WF_vars(ReentrantStep(t))

(***************************************************************************)
(* Claims about the FSM engine (SpecEngine).                               *)
(***************************************************************************)

\* What the claims say of a bucket, stated over the registrations.
Passes(tr, ctx) == tr.condition = "none" \/ tr.condition \in ctx

InBucket(tr, state, ev) == tr.from_state = state /\ tr.trigger = ev

Candidates(state, ev, ctx) ==
    {i \in 1..Len(DoorRegistrations) :
        InBucket(DoorRegistrations[i], state, ev) /\ Passes(DoorRegistrations[i], ctx)}

Least(S) == CHOOSE i \in S : \A j \in S : i <= j

\* The guarded registrations of the bucket up to and including number k.
GuardedUpTo(state, ev, k) ==
    SelectSeq([i \in 1..k |-> DoorRegistrations[i]],
              LAMBDA tr : InBucket(tr, state, ev) /\ tr.condition # "none")

Ids(seq) == [i \in 1..Len(seq) |-> seq[i].id]

Selecting(t) == pc[t] = "queued" /\ pc'[t] # "queued"
Committing(t) == pc[t] = "enter" /\ pc'[t] = "idle"

\* C3: guard priority.  A call that meets a bucket with a passing entry
\* selects the first-registered passing one, has run exactly the guards of
\* the entries registered up to it, and on firing runs only that entry's
\* action and makes that entry's to_state the current state.
GuardPriority ==
    [][\A t \in Callers :
          /\ (Selecting(t) /\ Candidates(current_state, event[t], context[t]) # {}) =>
                LET k == Least(Candidates(current_state, event[t], context[t]))
                IN  /\ chosen'[t] = DoorRegistrations[k].id
                    /\ evaluated'[t] = Ids(GuardedUpTo(current_state, event[t], k))
          /\ Committing(t) =>
                /\ current_state' = Registration(chosen[t]).to_state
                /\ ret'[t] = "true"
                /\ \A i \in 1..Len(handlers'[t]) :
                      handlers'[t][i][1] = "action" => handlers'[t][i][2] = chosen[t]
      ]_vars

\* C3 witness: the false guard of entry 1 was run, entry 2 fired, its
\* target Opening is the current state.
GuardPriorityWitness ==
    \E t \in Callers :
        ret[t] = "true" /\ evaluated[t] = <<1, 2>> /\ current_state = "Opening"
            /\ handlers[t] = <<<<"on_exit", "Closed">>, <<"action", 2>>,
                               <<"on_entry", "Opening">>>>

\* C4: a trigger that cannot fire is a no-op.  With no bucket for
\* (current_state, event), or every guard of the bucket false, the call
\* returns false, leaves current_state and the mutex alone and has run no
\* on_exit, action or on_entry; no call that returned false ran a handler.
NoMatchIsNoOp ==
    [][\A t \in Callers :
          /\ (Selecting(t) /\ Candidates(current_state, event[t], context[t]) = {}) =>
                /\ ret'[t] = "false"
                /\ pc'[t] = "idle"
                /\ current_state' = current_state
                /\ handlers'[t] = <<>>
                /\ mutex' = mutex
          /\ ret'[t] = "false" => handlers'[t] = <<>>
      ]_vars

\* C4 witness: a call returned false after all three guards of the
\* (Closed, "action") bucket failed, and another after finding no bucket.
NoMatchWitness ==
    \E t, u \in Callers :
        /\ ret[t] = "false" /\ evaluated[t] = <<1, 2, 3>>
        /\ ret[u] = "false" /\ evaluated[u] = <<>> /\ current_state = "Closed"

\* C5: every change of current_state from s to t is committed by a call
\* whose selected transition goes from s to t.
CommitFromSelectedState ==
    [][current_state' # current_state =>
          \E t \in Callers :
              /\ Committing(t)
              /\ Registration(chosen[t]).from_state = current_state
              /\ Registration(chosen[t]).to_state = current_state'
      ]_vars

(***************************************************************************)
(* Claims about the connection state machine (SpecConn).                   *)
(***************************************************************************)

\* The transition table as the documentation gives it.
TableNext(state, trig) ==
    CASE trig = "start" /\ state = "DISCONNECTED" -> "CONNECTING"
      [] trig = "channel_ready" /\ state = "CONNECTING" -> "ESTABLISHING"
      [] trig = "connect_failed" /\ state = "CONNECTING" -> "FAILED"
      [] trig = "stream_ready" /\ state = "ESTABLISHING" -> "ACTIVE"
      [] trig = "stream_failed" /\ state = "ESTABLISHING" -> "FAILED"
      [] trig = "stream_ended" /\ state = "ACTIVE" -> "FAILED"
      [] trig = "retry" /\ state = "FAILED" -> "CONNECTING"
      [] trig = "stop" /\ state # "DISCONNECTED" -> "DISCONNECTED"
      [] OTHER -> state

Called == lastCall.trigger # "none"
Before == lastCall.before
After == sm[lastCall.name]

\* C6: after any trigger_* call the state is the table's next state of the
\* state the call met, and ACTIVE is entered only from ESTABLISHING.
ConnTableHolds ==
    Called =>
        /\ After.state = TableNext(Before.state, lastCall.trigger)
        /\ (After.state = "ACTIVE" /\ Before.state # "ACTIVE") =>
              Before.state = "ESTABLISHING"

\* C6 witness: stop met FAILED and left DISCONNECTED.
ConnTableWitness ==
    Called /\ lastCall.trigger = "stop" /\ Before.state = "FAILED"
        /\ After.state = "DISCONNECTED"

\* C7: status() is OK only in ACTIVE; in FAILED it is the non-OK error of
\* the failure that entered FAILED; in DISCONNECTED FailedPrecondition; in
\* CONNECTING and ESTABLISHING Unavailable.
StatusReflectsState ==
    \A n \in ConnNames :
        /\ status(sm[n]).code = "OK" => sm[n].state = "ACTIVE"
        /\ sm[n].state = "FAILED" =>
              status(sm[n]) = failure[n] /\ status(sm[n]).code # "OK"
        /\ sm[n].state = "DISCONNECTED" => status(sm[n]).code = "FailedPrecondition"
        /\ sm[n].state \in {"CONNECTING", "ESTABLISHING"} =>
              status(sm[n]).code = "Unavailable"

\* C8: a trigger_* call changes last_error only when its transition fires:
\* set exactly on entering FAILED, cleared exactly on entering ACTIVE, and
\* left alone by a call the machine ignores.
LastErrorOnlyOnTransition ==
    Called =>
        /\ After.state = Before.state => After.last_error = Before.last_error
        /\ After.last_error # Before.last_error =>
              \/ After.state = "FAILED" /\ Before.state # "FAILED"
              \/ After.state = "ACTIVE" /\ Before.state # "ACTIVE"
                    /\ After.last_error = OkStatus

(***************************************************************************)
(* kuksa::VSSClientImpl: registration, start(), stop(), status()           *)
(***************************************************************************)
MaxActuators == 2
MaxFrames == 2
MaxStarts == 2

\* The handles the application registers: path, id and type as the Resolver
\* gave them at registration time.
Reg(path, id, type) == [path |-> path, signal_id |-> id, type |-> type]
ActuatorChoices == {Reg("A", 1, "INT32"), Reg("B", 2, "FLOAT")}
SignalIds == {1, 2}

\* are_types_compatible (types.hpp): equal, or a float/double, int32/int64,
\* uint32/uint64 pair, scalar or array.
are_types_compatible(expected, actual) ==
    \/ expected = actual
    \/ {expected, actual} \in {{"FLOAT", "DOUBLE"}, {"INT32", "INT64"},
                               {"UINT32", "UINT64"},
                               {"FLOAT_ARRAY", "DOUBLE_ARRAY"},
                               {"INT32_ARRAY", "INT64_ARRAY"},
                               {"UINT32_ARRAY", "UINT64_ARRAY"}}

\* query_signal_metadata: {id, type} of the entry whose path matches and
\* whose id is not 0; {-1, nullopt} on an RPC error or when none matches.
NotFound == [id |-> -1, type |-> "none"]
Meta(id, type) == [id |-> id, type |-> type]
MetaAnswers == {NotFound, Meta(1, "INT32"), Meta(1, "INT64"), Meta(1, "none"),
                Meta(2, "INT32"), Meta(2, "FLOAT")}

query_signal_metadata(md, path) == IF path \in DOMAIN md THEN md[path] ELSE NotFound

Paths(regs) == {regs[i].path : i \in 1..Len(regs)}

\* A slip: the id comparison is dropped from the validation loop.
ValidateOneNoIdCheck(handler, md) ==
    LET m == query_signal_metadata(md, handler.path)
    IN  IF m.id <= 0 THEN <<<<handler.path, "Signal not found in VSS">>>>
        ELSE IF m.type = "none" THEN <<<<handler.path, "No type metadata">>>>
        ELSE IF ~are_types_compatible(handler.type, m.type)
             THEN <<<<handler.path, "Type mismatch">>>>
        ELSE <<>>

\* provider_loop, one pass of the validation loop: the error it pushes.
ValidateOne(handler, md) ==
    LET m == query_signal_metadata(md, handler.path)
    IN  IF m.id <= 0 THEN <<<<handler.path, "Signal not found in VSS">>>>
        ELSE IF m.id # handler.signal_id
             THEN <<<<handler.path, "Signal ID mismatch">>>>
        ELSE IF m.type = "none" THEN <<<<handler.path, "No type metadata">>>>
        ELSE IF ~are_types_compatible(handler.type, m.type)
             THEN <<<<handler.path, "Type mismatch">>>>
        ELSE <<>>

RECURSIVE ValidationErrors(_, _, _)
ValidationErrors(regs, md, i) ==
    IF i > Len(regs) THEN <<>>
    ELSE ValidateOne(regs[i], md) \o ValidationErrors(regs, md, i + 1)

\* absl::InvalidArgumentError("Actuator validation failed:\n" + errors)
ValidationFailed(errors) == St("InvalidArgument", "Actuator validation failed")

AlreadyRunning(msg) == St("FailedPrecondition", msg)

\* serve_actuator_impl without its running_ test.
serve_actuator_impl_unchecked(r) ==
    /\ app = "idle"
    /\ Len(actuator_handlers) < MaxActuators
    /\ actuator_handlers' = Append(actuator_handlers, r)
    /\ returned' = Returned("serve_actuator", OkStatus)
    /\ UNCHANGED <<running, subscriptions, subscriptions_mutex, starts, batch, setcall, typecheck, converted, resolver, app, metadata, frames>>
    /\ UNCHANGED <<engineVars, connVars, providerVars, subscriberVars>>

\* serve_actuator_impl: refused while running, else push_back.
serve_actuator_impl(r) ==
    /\ app = "idle"
    /\ Len(actuator_handlers) < MaxActuators
    /\ IF running
       THEN /\ returned' = Returned("serve_actuator",
                    AlreadyRunning("Cannot serve actuator while client is running"))
            /\ UNCHANGED actuator_handlers
       ELSE /\ actuator_handlers' = Append(actuator_handlers, r)
            /\ returned' = Returned("serve_actuator", OkStatus)
    /\ UNCHANGED <<running, subscriptions, subscriptions_mutex, starts, batch, setcall, typecheck, converted, resolver, app, metadata, frames>>
    /\ UNCHANGED <<engineVars, connVars, providerVars, subscriberVars>>

\* subscribe_impl: subscriptions_[id] = callback, under subscriptions_mutex_.
subscribe_impl(id) ==
    /\ app = "idle"
    /\ subscriptions_mutex = "free"
    /\ subscriptions' = subscriptions \cup {id}
    /\ returned' = NoReturn
    /\ UNCHANGED <<running, actuator_handlers, subscriptions_mutex, starts, batch, setcall, typecheck, converted, resolver, app, metadata, frames>>
    /\ UNCHANGED <<engineVars, connVars, providerVars, subscriberVars>>

\* A start() that launches both threads whatever is registered.
start_launches_both ==
    /\ app = "idle"
    /\ starts < MaxStarts
    /\ IF running
       THEN /\ returned' = Returned("start", AlreadyRunning("Client is already running"))
            /\ UNCHANGED <<running, starts, ppc, spc, invoked, acks>>
       ELSE /\ running' = TRUE
            /\ returned' = Returned("start", OkStatus)
            /\ starts' = starts + 1
            /\ ppc' = "start"
            /\ spc' = "start"
            /\ invoked' = <<>>
            /\ acks' = 0
    /\ UNCHANGED <<actuator_handlers, subscriptions, subscriptions_mutex, batch, setcall, typecheck, converted, resolver, app, metadata, frames>>
    /\ UNCHANGED <<provider_context, pstream, pframe, claimed, ready>>
    /\ UNCHANGED <<retry_attempt, delay_ms, subscriber_context, sstream, sframe, requested, fetched,
                   pending, held_callback, delivered>>
    /\ UNCHANGED <<engineVars, connVars>>

\* start(): refused while running; else running_ = true and one thread per
\* non-empty registration kind.  invoked and acks log one run.
start ==
    /\ app = "idle"
    /\ starts < MaxStarts
    /\ IF running
       THEN /\ returned' = Returned("start", AlreadyRunning("Client is already running"))
            /\ UNCHANGED <<running, starts, ppc, spc, invoked, acks>>
       ELSE /\ running' = TRUE
            /\ returned' = Returned("start", OkStatus)
            /\ starts' = starts + 1
            /\ ppc' = IF actuator_handlers # <<>> THEN "start" ELSE ppc
            /\ spc' = IF subscriptions # {} THEN "start" ELSE spc
            /\ invoked' = <<>>
            /\ acks' = 0
    /\ UNCHANGED <<actuator_handlers, subscriptions, subscriptions_mutex, batch, setcall, typecheck, converted, resolver, app, metadata, frames>>
    /\ UNCHANGED <<provider_context, pstream, pframe, claimed, ready>>
    /\ UNCHANGED <<retry_attempt, delay_ms, subscriber_context, sstream, sframe, requested, fetched,
                   pending, held_callback, delivered>>
    /\ UNCHANGED <<engineVars, connVars>>

\* ClientContext::TryCancel on the context a unique_ptr holds now.
TryCancel(ctx) == IF ctx = "live" THEN "cancelled" ELSE ctx

\* stop(): return when not running; else running_ = false ...
stop_begin ==
    /\ app = "idle"
    /\ running
    /\ running' = FALSE
    /\ app' = "cancel_provider"
    /\ returned' = NoReturn
    /\ UNCHANGED <<actuator_handlers, subscriptions, subscriptions_mutex, starts, batch, setcall, typecheck, converted, resolver, metadata, frames>>
    /\ UNCHANGED <<engineVars, connVars, providerVars, subscriberVars>>

\* ... if (provider_context_) provider_context_->TryCancel() ...
stop_cancel_provider ==
    /\ app = "cancel_provider"
    /\ provider_context' = TryCancel(provider_context)
    /\ app' = "cancel_subscriber"
    /\ UNCHANGED <<running, actuator_handlers, subscriptions, subscriptions_mutex, starts, returned, batch, setcall, typecheck, converted, resolver, metadata, frames>>
    /\ UNCHANGED <<ppc, pstream, pframe, claimed, ready, invoked, acks>>
    /\ UNCHANGED <<engineVars, connVars, subscriberVars>>

\* ... if (subscriber_context_) subscriber_context_->TryCancel() ...
stop_cancel_subscriber ==
    /\ app = "cancel_subscriber"
    /\ subscriber_context' = TryCancel(subscriber_context)
    /\ app' = "join_provider"
    /\ UNCHANGED <<running, actuator_handlers, subscriptions, subscriptions_mutex, starts, returned, batch, setcall, typecheck, converted, resolver, metadata, frames>>
    /\ UNCHANGED <<spc, retry_attempt, delay_ms, sstream, sframe, requested, fetched, pending, held_callback, delivered>>
    /\ UNCHANGED <<engineVars, connVars, providerVars>>

\* ... if (provider_thread_.joinable()) provider_thread_.join() ...
stop_join_provider ==
    /\ app = "join_provider"
    /\ ppc \in {"none", "done"}
    /\ ppc' = "none"
    /\ app' = "join_subscriber"
    /\ UNCHANGED <<running, actuator_handlers, subscriptions, subscriptions_mutex, starts, returned, batch, setcall, typecheck, converted, resolver, metadata, frames>>
    /\ UNCHANGED <<provider_context, pstream, pframe, claimed, ready, invoked, acks>>
    /\ UNCHANGED <<engineVars, connVars, subscriberVars>>

\* ... if (subscriber_thread_.joinable()) subscriber_thread_.join(); return,
\* to the application or into the clear_subscriptions that called stop().
stop_join_subscriber ==
    /\ app = "join_subscriber"
    /\ spc \in {"none", "done"}
    /\ spc' = "none"
    /\ app' = IF subscriptions_mutex = "clear" THEN "clear" ELSE "idle"
    /\ UNCHANGED <<running, actuator_handlers, subscriptions, subscriptions_mutex, starts, returned, batch, setcall, typecheck, converted, resolver, metadata, frames>>
    /\ UNCHANGED <<retry_attempt, delay_ms, subscriber_context, sstream, sframe, requested, fetched,
                   pending, held_callback, delivered>>
    /\ UNCHANGED <<engineVars, connVars, providerVars>>

\* unsubscribe_impl's bool as the status of a return.
BoolResult(b) == [code |-> IF b THEN "true" ELSE "false", msg |-> ""]

\* unsubscribe_impl: under subscriptions_mutex_, erase the id's callback when
\* there is one; true iff there was.
unsubscribe_impl(id) ==
    /\ app = "idle"
    /\ subscriptions_mutex = "free"
    /\ subscriptions' = subscriptions \ {id}
    /\ returned' = Returned("unsubscribe", BoolResult(id \in subscriptions))
    /\ UNCHANGED <<running, actuator_handlers, subscriptions_mutex, starts, batch, setcall, typecheck, converted, resolver, app, metadata, frames>>
    /\ UNCHANGED <<engineVars, connVars, providerVars, subscriberVars>>

\* clear_subscriptions: lock_guard on subscriptions_mutex_, then
\* if (running_) stop(), whose steps are stop()'s own from running_ = false
\* on, the mutex held throughout.
clear_subscriptions_begin ==
    /\ app = "idle"
    /\ subscriptions_mutex = "free"
    /\ subscriptions_mutex' = "clear"
    /\ returned' = NoReturn
    /\ IF running
       THEN /\ running' = FALSE
            /\ app' = "cancel_provider"
       ELSE /\ app' = "clear"
            /\ UNCHANGED running
    /\ UNCHANGED <<actuator_handlers, subscriptions, starts, batch, setcall, typecheck, converted, resolver, metadata, frames>>
    /\ UNCHANGED <<engineVars, connVars, providerVars, subscriberVars>>

\* ... subscriptions_.clear(); id_to_handle_.clear(); the guard releases the
\* mutex on return.
clear_subscriptions_end ==
    /\ app = "clear"
    /\ subscriptions' = {}
    /\ subscriptions_mutex' = "free"
    /\ app' = "idle"
    /\ returned' = Returned("clear_subscriptions", OkStatus)
    /\ UNCHANGED <<running, actuator_handlers, starts, batch, setcall, typecheck, converted, resolver, metadata, frames>>
    /\ UNCHANGED <<engineVars, connVars, providerVars, subscriberVars>>

\* Client::status(): the provider's status when actuators are registered and
\* it is not OK, else the subscriber's when subscriptions exist, else OK.
ClientStatus ==
    IF actuator_handlers # <<>> /\ status(sm["Provider"]).code # "OK"
    THEN status(sm["Provider"])
    ELSE IF subscriptions # {} /\ status(sm["Subscriber"]).code # "OK"
         THEN status(sm["Subscriber"])
         ELSE OkStatus

\* wait_until_active on a machine whose state no longer changes: ACTIVE
\* returns OK, FAILED returns last_error_, any other state polls to the
\* deadline and returns DeadlineExceeded.
DeadlineExceeded == St("DeadlineExceeded", "Timeout waiting to become active")

wait_until_active(m) ==
    CASE m.state = "ACTIVE" -> OkStatus
      [] m.state = "FAILED" -> m.last_error
      [] OTHER -> DeadlineExceeded

\* wait_until_ready on a client whose machines no longer change state.
wait_until_ready ==
    IF ~running THEN St("FailedPrecondition", "Client not started")
    ELSE IF actuator_handlers # <<>> /\ wait_until_active(sm["Provider"]).code # "OK"
         THEN wait_until_active(sm["Provider"])
    ELSE IF subscriptions # {} /\ wait_until_active(sm["Subscriber"]).code # "OK"
         THEN wait_until_active(sm["Subscriber"])
    ELSE OkStatus

\* The loops the registrations require: the provider's when an actuator is
\* registered, the subscriber's when a subscription is.
RequiredLoops ==
    {n \in ConnNames : \/ n = "Provider" /\ actuator_handlers # <<>>
                       \/ n = "Subscriber" /\ subscriptions # {}}

\* wait_until_ready(timeout), entry: FailedPrecondition when not running,
\* else the deadline is taken and the provider is waited for first.
wait_until_ready_call ==
    /\ app = "idle"
    /\ IF ~running
       THEN /\ returned' = Returned("wait_until_ready",
                                    St("FailedPrecondition", "Client not started"))
            /\ UNCHANGED <<app, active_during>>
       ELSE /\ app' = WaitsOn["Provider"]
            /\ returned' = NoReturn
            /\ active_during' = {n \in ConnNames : sm[n].state = "ACTIVE"}
    /\ UNCHANGED <<sm, lastCall, failure>>
    /\ UNCHANGED <<running, actuator_handlers, subscriptions, subscriptions_mutex, starts, batch, setcall,
                   typecheck, converted, resolver, metadata, frames>>
    /\ UNCHANGED <<engineVars, providerVars, subscriberVars>>

\* wait_until_ready(timeout), the wait for instance n: skipped when the
\* registrations do not require it; else wait_until_active polls until the
\* state is ACTIVE or FAILED or the deadline has passed (expired).  A status
\* that is not OK is returned at once; OK moves on to the subscriber, and
\* after the subscriber returns OK.  A poll that finds another state sleeps
\* and changes nothing.
wait_until_ready_wait(n, expired) ==
    /\ app = WaitsOn[n]
    /\ IF n \in RequiredLoops
       THEN expired \/ sm[n].state \in {"ACTIVE", "FAILED"}
       ELSE ~expired
    /\ LET s == IF expired THEN DeadlineExceeded ELSE wait_until_active(sm[n])
       IN  IF n \in RequiredLoops /\ s.code # "OK"
           THEN /\ returned' = Returned("wait_until_ready", s)
                /\ app' = "idle"
           ELSE IF n = "Provider"
                THEN /\ app' = WaitsOn["Subscriber"]
                     /\ UNCHANGED returned
                ELSE /\ returned' = Returned("wait_until_ready", OkStatus)
                     /\ app' = "idle"
    /\ UNCHANGED <<running, actuator_handlers, subscriptions, subscriptions_mutex, starts, batch, setcall,
                   typecheck, converted, resolver, metadata, frames>>
    /\ UNCHANGED <<engineVars, connVars, providerVars, subscriberVars>>

WaitStep ==
    \/ wait_until_ready_call
    \/ \E n \in ConnNames, expired \in BOOLEAN : wait_until_ready_wait(n, expired)

(***************************************************************************)
(* VSSClientImpl::provider_loop, one action per step of the thread.        *)
(***************************************************************************)
ProviderFrame == UNCHANGED <<appVars, subscriberVars, engineVars>>

\* return from provider_loop: the locals (metadata, stream, response,
\* ready) go out of scope, and the broker drops the claim with the stream;
\* provider_context_ is a member and stays.
ProviderReturn ==
    /\ ppc' = "done"
    /\ metadata' = <<>>
    /\ pstream' = "none"
    /\ pframe' = NoFrame
    /\ ready' = FALSE
    /\ claimed' = <<>>
    /\ UNCHANGED <<provider_context, invoked, acks>>
    /\ UNCHANGED <<running, actuator_handlers, subscriptions, subscriptions_mutex, starts, returned, batch, setcall, typecheck, converted, resolver, app, frames>>
    /\ UNCHANGED <<subscriberVars, engineVars>>

\* provider_sm_->trigger_start()
provider_start ==
    /\ ppc = "start"
    /\ ConnCall("Provider", "start", OkStatus, FALSE)
    /\ ppc' = "validate"
    /\ UNCHANGED <<provider_context, pstream, pframe, claimed, ready, invoked, acks>>
    /\ ProviderFrame

\* Step 1: query every registration's metadata; with errors record the
\* failure by trigger_stream_failed, else trigger_channel_ready.
provider_validate(md) ==
    /\ ppc = "validate"
    /\ LET errors == ValidationErrors(actuator_handlers, md, 1)
       IN  IF errors # <<>>
           THEN /\ ConnCall("Provider", "stream_failed", ValidationFailed(errors), FALSE)
                /\ ppc' = "failed_stop"
           ELSE /\ ConnCall("Provider", "channel_ready", OkStatus, FALSE)
                /\ ppc' = "open"
    /\ metadata' = md
    /\ UNCHANGED <<provider_context, pstream, pframe, claimed, ready, invoked, acks>>
    /\ UNCHANGED <<running, actuator_handlers, subscriptions, subscriptions_mutex, starts, returned, batch, setcall, typecheck, converted, resolver, app, frames>>
    /\ UNCHANGED <<subscriberVars, engineVars>>

\* provider_sm_->trigger_stop(); return;  after any of the three failures.
provider_failed_stop ==
    /\ ppc = "failed_stop"
    /\ ConnCall("Provider", "stop", OkStatus, FALSE)
    /\ ProviderReturn

\* Step 2: a fresh ClientContext and OpenProviderStream on it; a null
\* stream is reported by trigger_stream_failed.
provider_open(ok) ==
    /\ ppc = "open"
    /\ provider_context' = "live"
    /\ IF ok
       THEN /\ pstream' = "open"
            /\ ppc' = "claim"
            /\ UNCHANGED connVars
       ELSE /\ pstream' = "none"
            /\ ConnCall("Provider", "stream_failed",
                        St("Unavailable", "Failed to open stream"), TRUE)
            /\ ppc' = "failed_stop"
    /\ pframe' = NoFrame
    /\ UNCHANGED <<claimed, ready, invoked, acks>>
    /\ ProviderFrame

\* A stream a Read or Write can still use.
Usable(ctx, stream) == ctx = "live" /\ stream = "open"

Ids2(regs) == [i \in 1..Len(regs) |-> regs[i].signal_id]

\* Step 3: one claim request naming every registration; a failed Write is
\* reported by trigger_stream_failed.  ready starts as "no actuators".
provider_claim ==
    /\ ppc = "claim"
    /\ ready' = (actuator_handlers = <<>>)
    /\ IF actuator_handlers = <<>>
       THEN /\ ConnCall("Provider", "stream_ready", OkStatus, FALSE)
            /\ ppc' = "loop"
            /\ UNCHANGED claimed
       ELSE IF Usable(provider_context, pstream)
            THEN /\ claimed' = Ids2(actuator_handlers)
                 /\ ppc' = "loop"
                 /\ UNCHANGED connVars
            ELSE /\ ConnCall("Provider", "stream_failed",
                             St("Unavailable", "Write failed"), TRUE)
                 /\ ppc' = "failed_stop"
                 /\ UNCHANGED claimed
    /\ UNCHANGED <<provider_context, pstream, pframe, invoked, acks>>
    /\ ProviderFrame

\* while (running_ && ...): the test of running_.
provider_loop_test ==
    /\ ppc = "loop"
    /\ ppc' = IF running THEN "read" ELSE "finish"
    /\ UNCHANGED <<provider_context, pstream, pframe, claimed, ready, invoked, acks>>
    /\ UNCHANGED connVars
    /\ ProviderFrame

RECURSIVE HandlersFor(_, _)
\* handle_actuation_request's loops: per entry the first registration with
\* the entry's id has its handler called; an unknown id is skipped.
HandlersFor(entries, regs) ==
    IF entries = <<>> THEN <<>>
    ELSE (IF \E i \in 1..Len(regs) : regs[i].signal_id = Head(entries)
          THEN <<Head(entries)>> ELSE <<>>)
         \o HandlersFor(Tail(entries), regs)

\* stream->Read(&response): blocks for a frame; false once the call is
\* cancelled or ended.  A claim confirmation makes the loop ready, an
\* actuation batch runs the handlers.
provider_read ==
    /\ ppc = "read"
    /\ \/ /\ Usable(provider_context, pstream)
          /\ pframe # NoFrame
          /\ pframe' = NoFrame
          /\ IF pframe.kind = "confirm"
             THEN /\ IF ~ready
                     THEN ConnCall("Provider", "stream_ready", OkStatus, FALSE)
                     ELSE UNCHANGED connVars
                  /\ ready' = TRUE
                  /\ ppc' = "loop"
                  /\ UNCHANGED invoked
             ELSE /\ invoked' = invoked \o HandlersFor(pframe.ids, actuator_handlers)
                  /\ ppc' = "ack"
                  /\ UNCHANGED <<ready, connVars>>
       \/ /\ ~Usable(provider_context, pstream)
          /\ ppc' = "finish"
          /\ UNCHANGED <<pframe, ready, invoked, connVars>>
    /\ UNCHANGED <<provider_context, pstream, claimed, acks>>
    /\ ProviderFrame

\* handle_actuation_request has no try block: a handler that throws (the
\* user's callback, or std::get<T> in the typed wrapper on a value of
\* another alternative) unwinds through provider_loop and out of the thread
\* function, which is std::terminate.
provider_handler_throws ==
    /\ ppc = "read"
    /\ Usable(provider_context, pstream)
    /\ pframe.kind = "batch"
    /\ HandlersFor(pframe.ids, actuator_handlers) # <<>>
    /\ invoked' = Append(invoked, Head(HandlersFor(pframe.ids, actuator_handlers)))
    /\ pframe' = NoFrame
    /\ ppc' = "terminated"
    /\ UNCHANGED <<provider_context, pstream, claimed, ready, acks, connVars>>
    /\ ProviderFrame

\* handle_actuation_request's tail: if (running_) stream->Write(ack).
provider_ack ==
    /\ ppc = "ack"
    /\ acks' = IF running /\ Usable(provider_context, pstream) THEN acks + 1 ELSE acks
    /\ ppc' = "loop"
    /\ UNCHANGED <<provider_context, pstream, pframe, claimed, ready, invoked>>
    /\ UNCHANGED connVars
    /\ ProviderFrame

\* stream->Finish(): blocks until the call is over, cancelled or ended by
\* the broker; then trigger_stream_ended when still running and not
\* CANCELLED, else trigger_stop.
provider_finish ==
    /\ ppc = "finish"
    /\ ~Usable(provider_context, pstream)
    /\ IF running /\ provider_context # "cancelled"
       THEN ConnCall("Provider", "stream_ended", St("Unavailable", "stream error"), TRUE)
       ELSE ConnCall("Provider", "stop", OkStatus, FALSE)
    /\ ProviderReturn

(***************************************************************************)
(* The broker's side of the provider stream.                               *)
(***************************************************************************)
\* ClaimConfirmed: the answer to the claim; ActuationBatches: batch
\* actuation requests, by the signal ids of their entries.
ClaimConfirmed == Frame("confirm", <<>>)
ActuationBatches == {Frame("batch", <<1>>), Frame("batch", <<2, 1>>), Frame("batch", <<3>>)}

\* The broker answers the claim or sends an actuation batch.
broker_provider_send(f) ==
    /\ Usable(provider_context, pstream)
    /\ claimed # <<>>
    /\ pframe = NoFrame
    /\ frames < MaxFrames
    /\ pframe' = f
    /\ frames' = frames + 1
    /\ UNCHANGED <<running, actuator_handlers, subscriptions, subscriptions_mutex, starts, returned, batch, setcall, typecheck, converted, resolver, app, metadata>>
    /\ UNCHANGED <<ppc, provider_context, pstream, claimed, ready, invoked, acks>>
    /\ UNCHANGED <<engineVars, connVars, subscriberVars>>

\* The broker, or the transport, ends the provider stream.
broker_provider_end ==
    /\ Usable(provider_context, pstream)
    /\ pstream' = "ended"
    /\ UNCHANGED <<ppc, provider_context, pframe, claimed, ready, invoked, acks>>
    /\ UNCHANGED <<appVars, engineVars, connVars, subscriberVars>>

AppStep ==
    \/ start
    \/ stop_begin
    \/ stop_cancel_provider
    \/ stop_cancel_subscriber
    \/ stop_join_provider
    \/ stop_join_subscriber

ProviderStep ==
    \/ provider_start
    \/ \E md \in [Paths(actuator_handlers) -> MetaAnswers] : provider_validate(md)
    \/ provider_failed_stop
    \/ \E ok \in BOOLEAN : provider_open(ok)
    \/ provider_claim
    \/ provider_loop_test
    \/ provider_read
    \/ provider_handler_throws
    \/ provider_ack
    \/ provider_finish

BrokerProviderStep ==
    \/ \E f \in {ClaimConfirmed} \cup ActuationBatches : broker_provider_send(f)
    \/ broker_provider_end

NextProvider ==
    \/ \E r \in ActuatorChoices : serve_actuator_impl(r)
    \/ AppStep
    \/ ProviderStep
    \/ BrokerProviderStep

InitClient == InitEngineVars /\ InitConnVars /\ InitClientVars

SpecProvider == InitClient /\ [][NextProvider]_vars

\* The provider loop with an application that also calls wait_until_ready().
NextWait ==
    \/ \E r \in ActuatorChoices : serve_actuator_impl(r)
    \/ AppStep
    \/ WaitStep
    \/ ProviderStep
    \/ BrokerProviderStep

SpecWait == InitClient /\ [][NextWait]_vars

(***************************************************************************)
(* subscriber_loop's backoff arithmetic on 32-bit int.                     *)
(***************************************************************************)
MAX_RETRY_DELAY_MS == 30000
MaxAttempt == 34

Min(a, b) == IF a <= b THEN a ELSE b

\* The shift counts the hardware may use for 1 << c.  c <= 31 shifts by c
\* (c = 31 gives the sign bit); c >= 32 is undefined: the count is masked to
\* five bits, or every bit is shifted out (-1 stands for a zero result).
ShiftCounts(c) == IF c <= 31 THEN {c} ELSE {c % 32, -1}

\* m * (1 << k) in 32-bit two's complement, for 0 <= m < 2^10 and
\* 0 <= k <= 31: exact while it fits, else the low 32 bits read as signed.
MulShift32(m, k) ==
    IF k <= 20 THEN m * 2^k
    ELSE LET r == m % 2^(32 - k)
         IN  IF r = 0 THEN 0
             ELSE IF r >= 2^(31 - k) THEN (r - 2^(32 - k)) * 2^k
             ELSE r * 2^k

\* int delay_ms = std::min(100 * (1 << (retry_attempt - 1)), MAX_RETRY_DELAY_MS);
\* the set of values a build can compute.
backoff_delay(n) ==
    { Min(IF k = -1 THEN 0 ELSE MulShift32(100, k), MAX_RETRY_DELAY_MS) :
        k \in ShiftCounts(n - 1) }


(***************************************************************************)
(* VSSClientImpl::subscriber_loop, one action per step of the thread.      *)
(***************************************************************************)
MaxRetry == 2

SubscriberFrame == UNCHANGED <<appVars, providerVars, engineVars>>

RECURSIVE Ascending(_)
\* Iteration order of std::map<int32_t, ...>: ascending key.
Ascending(S) ==
    IF S = {} THEN <<>>
    ELSE LET m == CHOOSE x \in S : \A y \in S : x <= y
         IN  <<m>> \o Ascending(S \ {m})

\* A datapoint by what the loop looks at: has_timestamp and has_value.
Datapoint(ts, val) == [has_timestamp |-> ts, has_value |-> val]
\* An entry of a response: the id and its datapoint; seq is the position in
\* the stream of the frame that carries it (0: not from the stream).
Entry(id, dp) == [signal_id |-> id, datapoint |-> dp, seq |-> 0]

\* GetValue's answer: whether the RPC succeeded, and the data_point the
\* broker holds for the signal (nothing at all for a signal never set).
Answer(ok, dp) == [ok |-> ok, data_point |-> dp]
GetValueAnswers == {Answer(FALSE, Datapoint(TRUE, TRUE)),
                    Answer(TRUE, Datapoint(FALSE, FALSE)),
                    Answer(TRUE, Datapoint(TRUE, FALSE)),
                    Answer(TRUE, Datapoint(TRUE, TRUE))}

\* get_current_value: nullopt when GetValue fails, else response.data_point().
Nullopt == [has_timestamp |-> FALSE, has_value |-> FALSE, nullopt |-> TRUE]
get_current_value(answer) ==
    IF ~answer.ok THEN Nullopt
    ELSE [has_timestamp |-> answer.data_point.has_timestamp,
          has_value |-> answer.data_point.has_value, nullopt |-> FALSE]

\* datapoint_to_qualified_value: quality inferred from has_value.
datapoint_to_qualified_value(dp) == IF dp.has_value THEN "VALID" ELSE "NOT_AVAILABLE"

RECURSIVE InitialValues(_, _)
\* fetch_initial_values' first loop: keep {id, *value} when the value is
\* there and has a timestamp.
InitialValues(ids, answers) ==
    IF ids = <<>> THEN <<>>
    ELSE LET value == get_current_value(answers[Head(ids)])
         IN  (IF ~value.nullopt /\ value.has_timestamp
              THEN <<Entry(Head(ids), Datapoint(value.has_timestamp, value.has_value))>>
              ELSE <<>>)
             \o InitialValues(Tail(ids), answers)

\* handle_subscription_update for the entry at the head of pending, in two
\* steps.  First the callback of the entry's id is copied out of
\* subscriptions_ under subscriptions_mutex_; an id without a callback is
\* passed over.  Then, the mutex released, the copy is called with the
\* converted datapoint.
handle_subscription_update(source) ==
    IF held_callback = NoCallback
    THEN /\ subscriptions_mutex = "free"
         /\ IF Head(pending).signal_id \in subscriptions
            THEN /\ held_callback' = Head(pending).signal_id
                 /\ UNCHANGED <<pending, delivered>>
            ELSE /\ pending' = Tail(pending)
                 /\ UNCHANGED <<held_callback, delivered>>
    ELSE /\ delivered' = Append(delivered,
                <<held_callback, source,
                  datapoint_to_qualified_value(Head(pending).datapoint),
                  Head(pending).seq>>)
         /\ pending' = Tail(pending)
         /\ held_callback' = NoCallback

\* return from subscriber_loop: its locals go out of scope.
SubscriberReturn ==
    /\ spc' = "done"
    /\ retry_attempt' = 0
    /\ delay_ms' = NoDelay
    /\ sstream' = "none"
    /\ sframe' = NoFrame
    /\ requested' = {}
    /\ fetched' = <<>>
    /\ pending' = <<>>
    /\ held_callback' = NoCallback
    /\ delivered' = <<>>
    /\ UNCHANGED subscriber_context
    /\ SubscriberFrame

\* subscriber_sm_->trigger_start()
subscriber_start ==
    /\ spc = "start"
    /\ ConnCall("Subscriber", "start", OkStatus, FALSE)
    /\ spc' = "top"
    /\ UNCHANGED <<retry_attempt, delay_ms, subscriber_context, sstream, sframe, requested, fetched,
                   pending, held_callback, delivered>>
    /\ SubscriberFrame

\* A slip: the loop gives up after a failure instead of retrying.
subscriber_top_gives_up ==
    /\ spc = "top"
    /\ spc' = IF ~running \/ retry_attempt > 0 THEN "exit" ELSE "wait"
    /\ UNCHANGED connVars
    /\ UNCHANGED <<retry_attempt, delay_ms, subscriber_context, sstream, sframe, requested,
                   fetched, pending, held_callback, delivered>>
    /\ SubscriberFrame

\* A slip: a later attempt backs off without calling trigger_retry.
subscriber_top_without_retry ==
    /\ spc = "top"
    /\ spc' = IF ~running THEN "exit"
              ELSE IF retry_attempt > 0 THEN "backoff" ELSE "wait"
    /\ UNCHANGED connVars
    /\ IF running /\ retry_attempt > 0
       THEN \E d \in backoff_delay(retry_attempt) : delay_ms' = Delay(retry_attempt, d)
       ELSE UNCHANGED delay_ms
    /\ UNCHANGED <<retry_attempt, subscriber_context, sstream, sframe, requested, fetched,
                   pending, held_callback, delivered>>
    /\ SubscriberFrame

\* while (running_): leave when stopped; trigger_retry on a later attempt.
subscriber_top ==
    /\ spc = "top"
    /\ IF ~running
       THEN spc' = "exit" /\ UNCHANGED connVars
       ELSE IF retry_attempt > 0
            THEN spc' = "backoff" /\ ConnCall("Subscriber", "retry", OkStatus, FALSE)
            ELSE spc' = "wait" /\ UNCHANGED connVars
    /\ IF running /\ retry_attempt > 0
       THEN \E d \in backoff_delay(retry_attempt) : delay_ms' = Delay(retry_attempt, d)
       ELSE UNCHANGED delay_ms
    /\ UNCHANGED <<retry_attempt, subscriber_context, sstream, sframe, requested, fetched,
                   pending, held_callback, delivered>>
    /\ SubscriberFrame

\* The backoff sleep in 100 ms slices: over when the delay elapsed or
\* running_ went false; if (!running_) break.
subscriber_backoff ==
    /\ spc = "backoff"
    /\ spc' = IF running THEN "wait" ELSE "exit"
    /\ delay_ms' = NoDelay
    /\ UNCHANGED connVars
    /\ UNCHANGED <<retry_attempt, subscriber_context, sstream, sframe, requested, fetched,
                   pending, held_callback, delivered>>
    /\ SubscriberFrame

\* channel_->WaitForConnected(5 s): a timeout is trigger_connect_failed,
\* retry_attempt++ and continue; else trigger_channel_ready.
subscriber_wait(connected) ==
    /\ spc = "wait"
    /\ IF connected
       THEN /\ ConnCall("Subscriber", "channel_ready", OkStatus, FALSE)
            /\ spc' = "subscribe"
            /\ UNCHANGED <<retry_attempt, delay_ms>>
       ELSE /\ retry_attempt < MaxRetry
            /\ ConnCall("Subscriber", "connect_failed", ConnectionTimeout, FALSE)
            /\ retry_attempt' = retry_attempt + 1
            /\ UNCHANGED delay_ms
            /\ spc' = "top"
    /\ UNCHANGED <<subscriber_context, sstream, sframe, requested, fetched, pending, held_callback, delivered>>
    /\ SubscriberFrame

\* A fresh ClientContext, the request listing subscriptions_ (read under
\* subscriptions_mutex_), SubscribeById.
subscriber_subscribe ==
    /\ spc = "subscribe"
    /\ subscriptions_mutex = "free"
    /\ subscriber_context' = "live"
    /\ requested' = subscriptions
    /\ fetched' = <<>>
    /\ sstream' = "open"
    /\ sframe' = NoFrame
    /\ delivered' = <<>>
    /\ spc' = "fetch"
    /\ UNCHANGED <<retry_attempt, delay_ms, pending, held_callback, connVars>>
    /\ SubscriberFrame

\* fetch_initial_values, first loop: GetValue per subscribed id, under
\* subscriptions_mutex_.
subscriber_fetch(answers) ==
    /\ spc = "fetch"
    /\ subscriptions_mutex = "free"
    /\ pending' = InitialValues(Ascending(subscriptions), answers)
    /\ fetched' = answers
    /\ spc' = "initial"
    /\ UNCHANGED <<retry_attempt, delay_ms, subscriber_context, sstream, sframe, requested,
                   held_callback, delivered, connVars>>
    /\ SubscriberFrame

\* fetch_initial_values, second loop, one entry per step; it returns true
\* and the loop calls trigger_stream_ready.
subscriber_initial ==
    /\ spc = "initial"
    /\ IF pending # <<>>
       THEN /\ handle_subscription_update("initial")
            /\ UNCHANGED <<spc, connVars>>
       ELSE /\ ConnCall("Subscriber", "stream_ready", OkStatus, FALSE)
            /\ spc' = "loop"
            /\ UNCHANGED <<pending, held_callback, delivered>>
    /\ UNCHANGED <<retry_attempt, delay_ms, subscriber_context, sstream, sframe, requested, fetched>>
    /\ SubscriberFrame

\* while (running_ && stream_ok): the test of running_.
subscriber_loop_test ==
    /\ spc = "loop"
    /\ spc' = IF running THEN "read" ELSE "finish"
    /\ UNCHANGED connVars
    /\ UNCHANGED <<retry_attempt, delay_ms, subscriber_context, sstream, sframe, requested, fetched,
                   pending, held_callback, delivered>>
    /\ SubscriberFrame

\* reader->Read(&response): blocks for a frame; false once the call is
\* cancelled or ended.  A frame resets retry_attempt.
subscriber_read ==
    /\ spc = "read"
    /\ \/ /\ Usable(subscriber_context, sstream)
          /\ sframe # NoFrame
          /\ retry_attempt' = 0
          /\ UNCHANGED delay_ms
          /\ pending' = sframe.ids
          /\ sframe' = NoFrame
          /\ spc' = "dispatch"
       \/ /\ ~Usable(subscriber_context, sstream)
          /\ spc' = "finish"
          /\ UNCHANGED <<retry_attempt, delay_ms, pending, sframe>>
    /\ UNCHANGED <<subscriber_context, sstream, requested, fetched, held_callback, delivered, connVars>>
    /\ SubscriberFrame

\* A dispatch that hands the entry over and keeps it for the next round.
subscriber_dispatch_again ==
    /\ spc = "dispatch"
    /\ IF pending # <<>>
       THEN /\ \/ handle_subscription_update("update")
               \/ /\ held_callback # NoCallback
                  /\ delivered' = Append(delivered,
                         <<held_callback, "update",
                           datapoint_to_qualified_value(Head(pending).datapoint),
                           Head(pending).seq>>)
                  /\ UNCHANGED <<pending, held_callback>>
            /\ UNCHANGED spc
       ELSE /\ spc' = "loop"
            /\ UNCHANGED <<pending, held_callback, delivered>>
    /\ UNCHANGED <<retry_attempt, delay_ms, subscriber_context, sstream, sframe, requested, fetched, connVars>>
    /\ SubscriberFrame

\* for (entry : response.entries()) handle_subscription_update(...)
subscriber_dispatch ==
    /\ spc = "dispatch"
    /\ IF pending # <<>>
       THEN /\ handle_subscription_update("update")
            /\ UNCHANGED spc
       ELSE /\ spc' = "loop"
            /\ UNCHANGED <<pending, held_callback, delivered>>
    /\ UNCHANGED <<retry_attempt, delay_ms, subscriber_context, sstream, sframe, requested, fetched, connVars>>
    /\ SubscriberFrame

\* reader->Finish() blocks until the call is over; if (!running_) break;
\* else trigger_stream_ended, retry_attempt++.
subscriber_finish ==
    /\ spc = "finish"
    /\ ~Usable(subscriber_context, sstream)
    /\ IF ~running
       THEN /\ spc' = "exit"
            /\ UNCHANGED <<retry_attempt, delay_ms, connVars>>
       ELSE /\ ConnCall("Subscriber", "stream_ended", StreamError, TRUE)
            /\ retry_attempt' = retry_attempt + 1
            /\ UNCHANGED delay_ms
            /\ spc' = "top"
    /\ UNCHANGED <<subscriber_context, sstream, sframe, requested, fetched, pending, held_callback, delivered>>
    /\ SubscriberFrame

\* After the loop: subscriber_sm_->trigger_stop() and return.
subscriber_exit ==
    /\ spc = "exit"
    /\ ConnCall("Subscriber", "stop", OkStatus, FALSE)
    /\ SubscriberReturn

(***************************************************************************)
(* The broker's side of the subscription stream.                           *)
(***************************************************************************)
\* SubscribeByIdResponse frames, by their entries.
UpdateFrames == {Frame("update", <<Entry(1, Datapoint(TRUE, TRUE))>>),
                 Frame("update", <<Entry(2, Datapoint(TRUE, FALSE)),
                                   Entry(1, Datapoint(TRUE, TRUE))>>)}

\* The frame as the n-th of the stream.
Stamp(f, n) == Frame(f.kind, [i \in DOMAIN f.ids |-> [f.ids[i] EXCEPT !.seq = n]])

\* The broker streams an update for requested ids.
broker_subscriber_send(f) ==
    /\ Usable(subscriber_context, sstream)
    /\ sframe = NoFrame
    /\ frames < MaxFrames
    /\ \A i \in 1..Len(f.ids) : f.ids[i].signal_id \in requested
    /\ sframe' = Stamp(f, frames + 1)
    /\ frames' = frames + 1
    /\ UNCHANGED <<running, actuator_handlers, subscriptions, subscriptions_mutex, starts, returned, batch, setcall, typecheck, converted, resolver, app, metadata>>
    /\ UNCHANGED <<spc, retry_attempt, delay_ms, subscriber_context, sstream, requested, fetched,
                   pending, held_callback, delivered>>
    /\ UNCHANGED <<engineVars, connVars, providerVars>>

\* The broker, or the transport, ends the subscription stream.
broker_subscriber_end ==
    /\ Usable(subscriber_context, sstream)
    /\ retry_attempt < MaxRetry
    /\ sstream' = "ended"
    /\ UNCHANGED <<spc, retry_attempt, delay_ms, subscriber_context, sframe, requested, fetched,
                   pending, held_callback, delivered>>
    /\ UNCHANGED <<appVars, engineVars, connVars, providerVars>>

SubscriberStep ==
    \/ subscriber_start
    \/ subscriber_top
    \/ subscriber_backoff
    \/ \E connected \in BOOLEAN : subscriber_wait(connected)
    \/ subscriber_subscribe
    \/ \E answers \in [subscriptions -> GetValueAnswers] : subscriber_fetch(answers)
    \/ subscriber_initial
    \/ subscriber_loop_test
    \/ subscriber_read
    \/ subscriber_dispatch
    \/ subscriber_finish
    \/ subscriber_exit

BrokerSubscriberStep ==
    \/ \E f \in UpdateFrames : broker_subscriber_send(f)
    \/ broker_subscriber_end

NextSubscriber ==
    \/ \E id \in SignalIds : ~running /\ subscribe_impl(id)
    \/ AppStep
    \/ SubscriberStep
    \/ BrokerSubscriberStep

SpecSubscriber == InitClient /\ [][NextSubscriber]_vars

\* The application thread alone: registrations of both kinds, start() and
\* stop().  The launched loops are not scheduled, so stop() returns only
\* when no loop was launched.
NextStart ==
    \/ \E r \in ActuatorChoices : serve_actuator_impl(r)
    \/ \E id \in SignalIds : ~running /\ subscribe_impl(id)
    \/ AppStep

SpecStart == InitClient /\ [][NextStart]_vars

\* The loop threads and the application's own calls are scheduled fairly;
\* nothing obliges the broker to send or to end a stream.
FairSubscriber ==
    SpecSubscriber /\ WF_vars(AppStep) /\ WF_vars(SubscriberStep)


\* The retry loop with one subscription.  Only the subscriber thread is
\* scheduled fairly: the application may never call stop(), and the broker
\* refuses or drops at most MaxRetry times in a row, after which it accepts
\* the connection and keeps the stream open.
NextRetry ==
    \/ ~running /\ subscribe_impl(1)
    \/ AppStep
    \/ SubscriberStep
    \/ BrokerSubscriberStep

FairRetry == InitClient /\ [][NextRetry]_vars /\ WF_vars(SubscriberStep)

\* The subscriber loop with an application that also calls subscribe()
\* after start(): subscribe_impl takes any call.
NextRuntime ==
    \/ \E id \in SignalIds : subscribe_impl(id)
    \/ AppStep
    \/ SubscriberStep
    \/ BrokerSubscriberStep

SpecRuntime == InitClient /\ [][NextRuntime]_vars

\* The subscriber loop with an application that subscribes before start()
\* and unsubscribes at any time.
NextUnsubscribe ==
    \/ \E id \in SignalIds : ~running /\ subscribe_impl(id)
    \/ \E id \in SignalIds : unsubscribe_impl(id)
    \/ AppStep
    \/ SubscriberStep
    \/ BrokerSubscriberStep

SpecUnsubscribe == InitClient /\ [][NextUnsubscribe]_vars

ClearStep ==
    \/ clear_subscriptions_begin
    \/ clear_subscriptions_end

\* The subscriber loop with one subscription and an application that calls
\* clear_subscriptions() at any time.  The application's calls, once made,
\* and the subscriber thread are scheduled fairly; nothing obliges the
\* broker to send or to end a stream.
NextClear ==
    \/ ~running /\ subscribe_impl(1)
    \/ AppStep
    \/ ClearStep
    \/ SubscriberStep
    \/ BrokerSubscriberStep

SpecClear == InitClient /\ [][NextClear]_vars

FairClear ==
    SpecClear /\ WF_vars(AppStep \/ ClearStep) /\ WF_vars(SubscriberStep)

(***************************************************************************)
(* publish_batch: one standalone PublishValue RPC per signal id.           *)
(***************************************************************************)
MaxBatch == 3
BatchIds == 1..MaxBatch

\* Entry lists of up to MaxBatch entries; an id may occur more than once.
EntryLists == UNION {[1..n -> BatchIds] : n \in 0..MaxBatch}

\* What stub_->PublishValue answers, as publish_impl converts it.
PublishOutcomes ==
    {OkStatus, St("NotFound", "signal not found"), St("Unavailable", "failed to connect")}

\* Client::create calls initialize_connection, which sets stub_.
stub_ == TRUE

\* publish_impl: FailedPrecondition without a stub, else the RPC's status
\* (code and message carried over).
publish_impl(outcome) ==
    IF ~stub_ THEN St("FailedPrecondition", "Not connected to databroker")
    ELSE outcome

\* errors[signal_id] = status
Put(errors, id, s) ==
    [x \in (DOMAIN errors) \cup {id} |-> IF x = id THEN s ELSE errors[x]]

PublishFrame ==
    UNCHANGED <<running, actuator_handlers, subscriptions, subscriptions_mutex, starts, setcall, typecheck, converted, resolver, metadata, frames,
                engineVars, connVars, providerVars, subscriberVars>>

\* Client::publish_batch: values[entry.signal_id] = entry.qvalue for each
\* entry, then publish_batch_impl(values, callback) with errors empty.
publish_batch(entries, callback) ==
    /\ app = "idle"
    /\ batch' = Batch(Ascending({entries[i] : i \in DOMAIN entries}), callback)
    /\ app' = "publish_batch"
    /\ UNCHANGED returned
    /\ PublishFrame

\* A slip: the loop is left at the first publish that fails.
publish_batch_step_stops(outcome) ==
    /\ app = "publish_batch"
    /\ batch.done < Len(batch.values)
    /\ LET signal_id == batch.values[batch.done + 1]
           s == publish_impl(outcome)
       IN  batch' = [batch EXCEPT
                        !.done = IF s.code = "OK" THEN @ + 1 ELSE Len(batch.values),
                        !.rpcs = Append(@, [id |-> signal_id, status |-> s]),
                        !.errors = IF s.code = "OK" THEN @ ELSE Put(@, signal_id, s)]
    /\ UNCHANGED <<app, returned>>
    /\ PublishFrame

\* One turn of the loop over values: publish_impl, and on failure
\* errors[signal_id] = status.
publish_batch_step(outcome) ==
    /\ app = "publish_batch"
    /\ batch.done < Len(batch.values)
    /\ LET signal_id == batch.values[batch.done + 1]
           s == publish_impl(outcome)
       IN  batch' = [batch EXCEPT
                        !.done = @ + 1,
                        !.rpcs = Append(@, [id |-> signal_id, status |-> s]),
                        !.errors = IF s.code = "OK" THEN @ ELSE Put(@, signal_id, s)]
    /\ UNCHANGED <<app, returned>>
    /\ PublishFrame

\* After the loop: callback(errors) if a callback was given, and the return.
publish_batch_return ==
    /\ app = "publish_batch"
    /\ batch.done = Len(batch.values)
    /\ batch' = [batch EXCEPT
                    !.calls = IF batch.callback THEN Append(@, batch.errors) ELSE @]
    /\ returned' = Returned("publish_batch",
                        IF DOMAIN batch.errors = {} THEN OkStatus
                        ELSE St("Unknown", "Some publishes failed"))
    /\ app' = "idle"
    /\ PublishFrame

NextPublish ==
    \/ AppStep
    \/ \E entries \in EntryLists, callback \in BOOLEAN : publish_batch(entries, callback)
    \/ \E outcome \in PublishOutcomes : publish_batch_step(outcome)
    \/ publish_batch_return

SpecPublish == InitClient /\ [][NextPublish]_vars

(***************************************************************************)
(* set(): one unary RPC chosen by the handle's signal class.               *)
(***************************************************************************)
SignalClasses == {"SENSOR", "ACTUATOR", "ATTRIBUTE", "UNKNOWN"}
Qualities == {"UNKNOWN", "VALID", "INVALID", "NOT_AVAILABLE"}

\* What stub_->Actuate answers, as actuate_signal converts it.
ActuateOutcomes ==
    {OkStatus, St("NotFound", "signal not found"), St("Unavailable", "failed to connect")}

Rpc(name, signal_id, s) == [rpc |-> name, signal_id |-> signal_id, status |-> s]

\* actuate_signal: the Actuate RPC's status (code and message carried over).
actuate_signal(outcome) == outcome

\* The status set_impl returns and the RPCs it issues; outcome is what the
\* broker answers to the RPC, if one is made.
\* A slip: the quality test is dropped.
SetResultUnchecked(signal_id, quality, empty, signal_class, outcome) ==
    IF ~stub_
    THEN [status |-> St("FailedPrecondition", "Not connected to databroker"), rpcs |-> <<>>]
    ELSE IF signal_class = "ACTUATOR"
    THEN [status |-> actuate_signal(outcome),
          rpcs |-> <<Rpc("Actuate", signal_id, outcome)>>]
    ELSE [status |-> publish_impl(outcome),
          rpcs |-> <<Rpc("PublishValue", signal_id, outcome)>>]

\* A slip: every write takes the publish path.
SetResultPublishOnly(signal_id, quality, empty, signal_class, outcome) ==
    IF ~stub_
    THEN [status |-> St("FailedPrecondition", "Not connected to databroker"), rpcs |-> <<>>]
    ELSE IF quality # "VALID" \/ empty
    THEN [status |-> St("InvalidArgument", "Cannot set value with quality != VALID"),
          rpcs |-> <<>>]
    ELSE [status |-> publish_impl(outcome),
          rpcs |-> <<Rpc("PublishValue", signal_id, outcome)>>]

SetResult(signal_id, quality, empty, signal_class, outcome) ==
    IF ~stub_
    THEN [status |-> St("FailedPrecondition", "Not connected to databroker"), rpcs |-> <<>>]
    ELSE IF quality # "VALID" \/ empty
    THEN [status |-> St("InvalidArgument", "Cannot set value with quality != VALID"),
          rpcs |-> <<>>]
    ELSE IF signal_class = "ACTUATOR"
    THEN [status |-> actuate_signal(outcome),
          rpcs |-> <<Rpc("Actuate", signal_id, outcome)>>]
    ELSE [status |-> publish_impl(outcome),
          rpcs |-> <<Rpc("PublishValue", signal_id, outcome)>>]

\* Client::set then set_impl, by the calling thread; the RPC is synchronous.
set_impl(signal_id, quality, empty, signal_class, outcome) ==
    /\ app = "idle"
    /\ LET result == SetResult(signal_id, quality, empty, signal_class, outcome)
       IN  /\ setcall' = SetCall(signal_id, quality, empty, signal_class, result.rpcs)
           /\ returned' = Returned("set", result.status)
    /\ UNCHANGED <<running, actuator_handlers, subscriptions, subscriptions_mutex, starts, batch, typecheck, converted, resolver, app,
                   metadata, frames>>
    /\ UNCHANGED <<engineVars, connVars, providerVars, subscriberVars>>

\* The application thread alone: registrations, start, stop and set().
NextSet ==
    \/ \E r \in ActuatorChoices : serve_actuator_impl(r)
    \/ AppStep
    \/ \E signal_id \in SignalIds, quality \in Qualities, empty \in BOOLEAN,
          signal_class \in SignalClasses, outcome \in ActuateOutcomes \cup PublishOutcomes :
          set_impl(signal_id, quality, empty, signal_class, outcome)

SpecSet == InitClient /\ [][NextSet]_vars

(***************************************************************************)
(* Logical and physical value types (type_mapping.hpp).                    *)
(***************************************************************************)
\* vss::types::ValueType, the enumerators the library names.
ScalarValueTypes ==
    {"STRING", "BOOL", "INT8", "INT16", "INT32", "INT64",
     "UINT8", "UINT16", "UINT32", "UINT64", "FLOAT", "DOUBLE"}
ArrayValueTypes ==
    {"STRING_ARRAY", "BOOL_ARRAY", "INT8_ARRAY", "INT16_ARRAY", "INT32_ARRAY",
     "INT64_ARRAY", "UINT8_ARRAY", "UINT16_ARRAY", "UINT32_ARRAY", "UINT64_ARRAY",
     "FLOAT_ARRAY", "DOUBLE_ARRAY"}
ValueTypes == {"UNSPECIFIED"} \cup ScalarValueTypes \cup ArrayValueTypes

\* to_physical_value_type: the switch, with its default branch.
to_physical_value_type(logical_type) ==
    CASE logical_type \in {"INT8", "INT16"} -> "INT32"
      [] logical_type \in {"UINT8", "UINT16"} -> "UINT32"
      [] logical_type \in {"INT8_ARRAY", "INT16_ARRAY"} -> "INT32_ARRAY"
      [] logical_type \in {"UINT8_ARRAY", "UINT16_ARRAY"} -> "UINT32_ARRAY"
      [] OTHER -> logical_type

\* requires_narrowing: the eight narrow types.
requires_narrowing(type) ==
    type \in {"INT8", "INT16", "UINT8", "UINT16",
              "INT8_ARRAY", "INT16_ARRAY", "UINT8_ARRAY", "UINT16_ARRAY"}

\* A comparison without the narrowing table.
are_physically_compatible_equal_only(logical, physical) ==
    logical = physical

\* are_physically_compatible: equal, or physical is the image of logical.
are_physically_compatible(logical, physical) ==
    IF logical = physical THEN TRUE
    ELSE to_physical_value_type(logical) = physical

\* A caller evaluates are_physically_compatible on one pair of types.
are_physically_compatible_call(logical, physical) ==
    /\ typecheck' = TypeCheck(logical, physical, are_physically_compatible(logical, physical))
    /\ UNCHANGED <<running, actuator_handlers, subscriptions, subscriptions_mutex, starts, returned, batch,
                   setcall, converted, resolver, app, metadata, frames>>
    /\ UNCHANGED <<engineVars, connVars, providerVars, subscriberVars>>

NextTypes ==
    \E logical \in ValueTypes, physical \in ValueTypes :
        are_physically_compatible_call(logical, physical)

SpecTypes == InitClient /\ [][NextTypes]_vars

(***************************************************************************)
(* VSSResolverImpl: the handle cache (resolver.cpp).                       *)
(***************************************************************************)
MaxQueries == 3

\* An entry of a ListMetadataResponse.
MetadataEntry(path, id, data_type, entry_type) ==
    [path |-> path, id |-> id, data_type |-> data_type, entry_type |-> entry_type]

\* ListMetadata's outcomes for a query of path: the RPC fails, no entry, an
\* entry of another path, an entry with id 0, an entry with data type
\* UNSPECIFIED, or the signal's entry (the broker's metadata does not change).
ListMetadata(ok, entries) == [ok |-> ok, entries |-> entries]
SignalOf(path) ==
    IF path = "A" THEN MetadataEntry(path, 7, "FLOAT", "ENTRY_TYPE_SENSOR")
    ELSE MetadataEntry(path, 8, "INT32", "ENTRY_TYPE_ACTUATOR")
ListMetadataAnswers(path) ==
    {ListMetadata(FALSE, <<>>),
     ListMetadata(TRUE, <<>>),
     ListMetadata(TRUE, <<MetadataEntry("Other", 9, "FLOAT", "ENTRY_TYPE_SENSOR")>>),
     ListMetadata(TRUE, <<MetadataEntry(path, 0, "FLOAT", "ENTRY_TYPE_SENSOR")>>),
     ListMetadata(TRUE, <<MetadataEntry(path, 7, "UNSPECIFIED", "ENTRY_TYPE_UNSPECIFIED")>>),
     ListMetadata(TRUE, <<MetadataEntry("Other", 9, "FLOAT", "ENTRY_TYPE_SENSOR"), SignalOf(path)>>)}

\* The switch on entry_type().
SignalClassOf(entry_type) ==
    CASE entry_type = "ENTRY_TYPE_SENSOR" -> "SENSOR"
      [] entry_type = "ENTRY_TYPE_ACTUATOR" -> "ACTUATOR"
      [] entry_type = "ENTRY_TYPE_ATTRIBUTE" -> "ATTRIBUTE"
      [] OTHER -> "UNKNOWN"

\* SignalMetadata, and the sentinel of a failed query.
SignalMetadata(id, type, signal_class) == [id |-> id, type |-> type, signal_class |-> signal_class]
NoSignalMetadata == SignalMetadata(-1, "UNSPECIFIED", "UNKNOWN")

RECURSIVE FirstMatch(_, _)
\* The loop over response.metadata(): the first entry with the path and an
\* id other than 0.
FirstMatch(entries, path) ==
    IF entries = <<>> THEN NoSignalMetadata
    ELSE IF Head(entries).path = path /\ Head(entries).id # 0
         THEN SignalMetadata(Head(entries).id, Head(entries).data_type,
                             SignalClassOf(Head(entries).entry_type))
         ELSE FirstMatch(Tail(entries), path)

\* query_metadata_unlocked, connected: the sentinel on an RPC error.
query_metadata_unlocked(path, answer) ==
    IF ~answer.ok THEN NoSignalMetadata ELSE FirstMatch(answer.entries, path)

\* A lookup that asks the broker even when the path is cached.
get_or_create_handle_uncached(r, path, answer) ==
    LET md == query_metadata_unlocked(path, answer)
    IN  IF md.id < 0 \/ md.type = "UNSPECIFIED"
        THEN [resolver |-> [r EXCEPT !.queries = @ + 1],
              code |-> "NotFound", handle |-> NoHandle, queried |-> TRUE]
        ELSE LET h == Handle(path, md.id, md.type, md.signal_class)
             IN  [resolver |-> [r EXCEPT !.queries = @ + 1, !.handle_cache[path] = h],
                  code |-> "OK", handle |-> h, queried |-> TRUE]

\* get_or_create_handle, under mutex_: the cached handle when there is one;
\* else one metadata query, SignalNotFound when it gave id < 0 or no type,
\* else a new handle, cached and returned.
get_or_create_handle(r, path, answer) ==
    IF r.handle_cache[path] # NoHandle
    THEN [resolver |-> r, code |-> "OK", handle |-> r.handle_cache[path], queried |-> FALSE]
    ELSE LET md == query_metadata_unlocked(path, answer)
         IN  IF md.id < 0 \/ md.type = "UNSPECIFIED"
             THEN [resolver |-> [r EXCEPT !.queries = @ + 1],
                   code |-> "NotFound", handle |-> NoHandle, queried |-> TRUE]
             ELSE LET h == Handle(path, md.id, md.type, md.signal_class)
                  IN  [resolver |-> [r EXCEPT !.queries = @ + 1, !.handle_cache[path] = h],
                       code |-> "OK", handle |-> h, queried |-> TRUE]

ResolverFrame ==
    /\ UNCHANGED <<running, actuator_handlers, subscriptions, subscriptions_mutex, starts, returned, batch,
                   setcall, typecheck, converted, app, metadata, frames>>
    /\ UNCHANGED <<engineVars, connVars, providerVars, subscriberVars>>

\* get_dynamic_impl: get_or_create_handle's result as it is.
get_dynamic_impl(path, answer) ==
    /\ resolver.queries < MaxQueries
    /\ LET d == get_or_create_handle(resolver, path, answer)
       IN  resolver' = [d.resolver EXCEPT
                          !.lookup = Lookup("get_dynamic", path, "UNSPECIFIED",
                                            d.code, d.handle, d.queried)]
    /\ ResolverFrame

\* The value types get<T> is asked with.
RequestedTypes == {"FLOAT", "DOUBLE", "BOOL"}

\* get_impl<T>: the status of get_or_create_handle when it failed;
\* TypeMismatch when the handle's type is not compatible with T; else the
\* handle wrapped in SignalHandle<T>.
get_impl(T, path, answer) ==
    /\ resolver.queries < MaxQueries
    /\ LET d == get_or_create_handle(resolver, path, answer)
       IN  resolver' = [d.resolver EXCEPT
                          !.lookup =
                              IF d.code # "OK"
                              THEN Lookup("get", path, T, d.code, NoHandle, d.queried)
                              ELSE IF ~are_types_compatible(d.handle.type, T)
                                   THEN Lookup("get", path, T, "TypeMismatch", NoHandle, d.queried)
                                   ELSE Lookup("get", path, T, "OK", d.handle, d.queried)]
    /\ ResolverFrame

\* Application threads resolve paths; every call runs under the resolver's
\* mutex_, so the calls of different threads take turns.
NextResolver ==
    \/ \E path \in ResolverPaths : \E answer \in ListMetadataAnswers(path) :
          get_dynamic_impl(path, answer)
    \/ \E T \in RequestedTypes, path \in ResolverPaths :
          \E answer \in ListMetadataAnswers(path) : get_impl(T, path, answer)

SpecResolver == InitClient /\ [][NextResolver]_vars

(***************************************************************************)
(* Wire datapoints to qualified values (vss_client.cpp).                   *)
(***************************************************************************)
MaxArray == 2

\* The cases of the typed_value oneof that from_proto_value tests.
ProtoScalars == {"bool", "int32", "uint32", "int64", "uint64", "float", "double", "string"}
ProtoArrays == {"bool_array", "int32_array", "uint32_array", "int64_array",
                "uint64_array", "float_array", "double_array", "string_array"}

\* The contents tried: two scalars, and arrays of them up to MaxArray long.
Payloads(typed_value) ==
    IF typed_value \in ProtoScalars THEN {<<0>>, <<1>>}
    ELSE IF typed_value \in ProtoArrays
         THEN UNION {[1..n -> {0, 1}] : n \in 0..MaxArray}
         ELSE {<<>>}

\* Every Value message the broker can put in a datapoint, the one with no
\* typed_value set included.
ProtoValues ==
    {ProtoValue(k, c) : k \in {"TYPED_VALUE_NOT_SET"}, c \in {<<>>}}
        \cup UNION {{ProtoValue(k, c) : c \in Payloads(k)} : k \in ProtoScalars \cup ProtoArrays}

WireDatapoints ==
    {WireDatapoint(ts, TRUE, v) : ts \in BOOLEAN, v \in ProtoValues}
        \cup {WireDatapoint(ts, FALSE, NoProtoValue) : ts \in BOOLEAN}

\* from_proto_value: the alternative of the case that is set, with its
\* content copied; std::monostate when none of the tested cases is set.
from_proto_value(proto_value) ==
    IF proto_value.typed_value \in ProtoScalars \cup ProtoArrays
    THEN Value(proto_value.typed_value, proto_value.payload)
    ELSE Monostate

\* vss::types::is_empty: the value holds std::monostate.
is_empty(value) == value.kind = "monostate"

\* datapoint_to_qualified_value, value and quality: has_value() gives the
\* converted value with VALID, else std::monostate with NOT_AVAILABLE.
DynamicQualifiedValue(dp) ==
    [value |-> IF dp.has_value THEN from_proto_value(dp.value) ELSE Monostate,
     quality |-> datapoint_to_qualified_value(dp)]

\* get_impl, or a subscription update, converts one datapoint.
datapoint_to_qualified_value_call(dp) ==
    /\ converted' = Conversion(dp, DynamicQualifiedValue(dp))
    /\ UNCHANGED <<running, actuator_handlers, subscriptions, subscriptions_mutex, starts, returned, batch,
                   setcall, typecheck, resolver, app, metadata, frames>>
    /\ UNCHANGED <<engineVars, connVars, providerVars, subscriberVars>>

NextDatapoint ==
    \E dp \in WireDatapoints : datapoint_to_qualified_value_call(dp)

SpecDatapoint == InitClient /\ [][NextDatapoint]_vars

(***************************************************************************)
(* The backoff alone: failures in a row, the delay, the sleep, a read.     *)
(***************************************************************************)
BackoffFrame ==
    /\ UNCHANGED <<spc, subscriber_context, sstream, sframe, requested, fetched,
                   pending, held_callback, delivered>>
    /\ UNCHANGED <<appVars, providerVars, engineVars, connVars>>

\* retry_attempt++ after a connect timeout or a stream end.
backoff_failure ==
    /\ delay_ms = NoDelay
    /\ retry_attempt < MaxAttempt
    /\ retry_attempt' = retry_attempt + 1
    /\ UNCHANGED delay_ms
    /\ BackoffFrame

\* if (retry_attempt > 0): delay_ms and sleep_until.
backoff_compute ==
    /\ delay_ms = NoDelay
    /\ retry_attempt > 0
    /\ \E d \in backoff_delay(retry_attempt) : delay_ms' = Delay(retry_attempt, d)
    /\ UNCHANGED retry_attempt
    /\ BackoffFrame

\* while (running_ && now < sleep_until) sleep_for(100 ms); then the attempt,
\* which fails (retry_attempt++) or reads a frame (retry_attempt = 0).
backoff_sleep ==
    /\ delay_ms # NoDelay
    /\ delay_ms.slept < delay_ms.ms
    /\ delay_ms' = [delay_ms EXCEPT !.slept = @ + 100]
    /\ UNCHANGED retry_attempt
    /\ BackoffFrame

backoff_attempt(read_ok) ==
    /\ delay_ms # NoDelay
    /\ delay_ms.slept >= delay_ms.ms
    /\ delay_ms' = NoDelay
    /\ IF read_ok THEN retry_attempt' = 0
       ELSE retry_attempt < MaxAttempt /\ retry_attempt' = retry_attempt + 1
    /\ BackoffFrame

NextBackoff ==
    \/ backoff_failure
    \/ backoff_compute
    \/ backoff_sleep
    \/ \E read_ok \in BOOLEAN : backoff_attempt(read_ok)

SpecBackoff == InitClient /\ [][NextBackoff]_vars

(***************************************************************************)
(* Provider loop: validation                                               *)
(***************************************************************************)
\* What the catalogue says about one registration, stated apart from the
\* loop: found, same id, typed, and a compatible type.
Valid(handler, md) ==
    /\ handler.path \in DOMAIN md
    /\ md[handler.path].id > 0
    /\ md[handler.path].id = handler.signal_id
    /\ md[handler.path].type # "none"
    /\ are_types_compatible(handler.type, md[handler.path].type)

Queried == DOMAIN metadata # {}
SomeInvalid == \E i \in 1..Len(actuator_handlers) : ~Valid(actuator_handlers[i], metadata)
SomeValid == \E i \in 1..Len(actuator_handlers) : Valid(actuator_handlers[i], metadata)

\* C1: once an actuator has failed validation, the Provider machine is in
\* FAILED with the validation error recorded, and Client::status() and
\* wait_until_ready() report that error.
ValidationFailureEndsFailed ==
    (ppc = "failed_stop" /\ Queried /\ SomeInvalid) =>
        /\ sm["Provider"].state = "FAILED"
        /\ ClientStatus = ValidationError
        /\ (running => wait_until_ready = ValidationError)

\* C2: validation is all-or-nothing.  While some registration is invalid the
\* loop has opened no stream, sent no claim and invoked no handler, and it
\* is on its way out; a stream or a claim exists only when every
\* registration validated.
ValidationAllOrNothing ==
    /\ (Queried /\ SomeInvalid) =>
          /\ ppc = "failed_stop"
          /\ pstream = "none"
          /\ claimed = <<>>
          /\ invoked = <<>>
    /\ (pstream # "none" \/ claimed # <<>>) => (Queried /\ ~SomeInvalid)

\* Two actuators, one valid and one not, and the loop is leaving.
ValidationAllOrNothingWitness ==
    /\ ppc = "failed_stop"
    /\ Len(actuator_handlers) = 2
    /\ Queried /\ SomeInvalid /\ SomeValid
    /\ pstream = "none" /\ invoked = <<>>

(***************************************************************************)
(* Subscriber loop: initial values, stop()                                 *)
(***************************************************************************)
HadInitial(id, k) ==
    \E j \in 1..(k - 1) : delivered[j][1] = id /\ delivered[j][2] = "initial"

\* C10: in every attempt, before a streamed update is dispatched the
\* callback of every requested id has been invoked with an initial value.
InitialValueBeforeUpdates ==
    \A k \in 1..Len(delivered) :
        delivered[k][2] = "update" => \A id \in requested : HadInitial(id, k)

\* The broker holds a value for the id when the attempt fetches it.
HasValueAtBroker(id) == id \in DOMAIN fetched /\ fetched[id].data_point.has_value

\* C11: a signal that has a value when the subscriber connects gets its
\* callback with that value before any streamed update of it; no streamed
\* update is dispatched before the initial dispatch is over, and the
\* Subscriber machine is not ACTIVE before that either.
InitialValuePrecedesUpdates ==
    /\ \A k \in 1..Len(delivered) :
          (delivered[k][2] = "update" /\ HasValueAtBroker(delivered[k][1])) =>
              \E j \in 1..(k - 1) : delivered[j] = <<delivered[k][1], "initial", "VALID", 0>>
    /\ \A j, k \in 1..Len(delivered) :
          (j < k /\ delivered[j][2] = "update") => delivered[k][2] = "update"
    /\ spc \in {"subscribe", "fetch", "initial"} => sm["Subscriber"].state # "ACTIVE"

SubscriberRuns == running /\ spc \notin {"none", "start"}

\* C12: while the client runs the subscriber thread never leaves its loop,
\* every FAILED (connect timeout, stream end) is followed by a retry into
\* CONNECTING, and once the broker stops refusing the machine gets to ACTIVE.
RetriesForever ==
    /\ [](spc \in {"exit", "done"} => ~running)
    /\ ((SubscriberRuns /\ sm["Subscriber"].state = "FAILED") ~>
           (sm["Subscriber"].state = "CONNECTING" \/ ~running))
    /\ (SubscriberRuns ~> (sm["Subscriber"].state = "ACTIVE" \/ ~running))

\* ACTIVE reached on an attempt that follows a failure and its retry.
RetriesForeverWitness ==
    /\ running /\ retry_attempt > 0
    /\ sm["Subscriber"].state = "ACTIVE"
    /\ spc = "read"

\* min(100 * 2^(n-1), 30000) over the integers; 100 * 2^9 already exceeds
\* the cap.
ExpectedDelay(n) == IF n >= 10 THEN 30000 ELSE Min(100 * 2^(n - 1), 30000)

\* C13: the delay before the n-th consecutive attempt is
\* min(100 * 2^(n-1), 30000) ms for every n: never negative, never above
\* 30 s, non-decreasing in n.
BackoffDelayIsCappedDoubling ==
    delay_ms # NoDelay =>
        /\ delay_ms.ms = ExpectedDelay(delay_ms.n)
        /\ delay_ms.ms >= 0
        /\ delay_ms.ms <= 30000
        /\ delay_ms.n > 1 => delay_ms.ms >= ExpectedDelay(delay_ms.n - 1)

\* C9: stop() called from the application always returns, with the loop
\* threads and the application scheduled fairly and nothing asked of the
\* broker.
StopReturns == (app # "idle") ~> (app = "idle")

(***************************************************************************)
(* Provider loop: the end of the stream                                    *)
(***************************************************************************)
\* C14: when the provider stream is over and the loop returns, the Provider
\* machine is in FAILED with the stream's error, which status() returns, if
\* the client still runs and the call was not cancelled, whether or not the
\* claim had been confirmed; it is in DISCONNECTED when the client was stopped.
StreamEndEndsFailed ==
    [][(ppc = "finish" /\ ppc' = "done") =>
          IF running /\ provider_context # "cancelled"
          THEN /\ sm'["Provider"].state = "FAILED"
               /\ status(sm'["Provider"]) = StreamError
          ELSE sm'["Provider"].state = "DISCONNECTED"]_vars

\* C15: no exception leaves a background loop thread: one raised by an
\* actuation handler is caught inside the loop.
NoExceptionEscapes == ppc # "terminated"

(***************************************************************************)
(* Registration after start()                                              *)
(***************************************************************************)
ServeActuatorReturns ==
    /\ returned'.call = "serve_actuator"
    /\ returned' # returned \/ actuator_handlers' # actuator_handlers

Registered(id) ==
    \E i \in 1..Len(actuator_handlers) : actuator_handlers[i].signal_id = id

\* C16: serve_actuator called while the client runs returns
\* FailedPrecondition and leaves the registration list as it is; the list
\* does not change while the client runs or the provider thread exists, so
\* what the loop validated, claimed and dispatched to is what was registered
\* before start().
RegistrationsFrozen ==
    [][/\ (running \/ ppc # "none") => actuator_handlers' = actuator_handlers
       /\ (running /\ ServeActuatorReturns) =>
              returned'.status.code = "FailedPrecondition"
       /\ metadata # <<>> => DOMAIN metadata = Paths(actuator_handlers)
       /\ claimed # <<>> => claimed = Ids2(actuator_handlers)
       /\ \A i \in 1..Len(invoked) : Registered(invoked[i])]_vars

\* C16 witness: a refused serve_actuator on a running client whose provider
\* loop has claimed its actuators and run a handler.
RegistrationsFrozenWitness ==
    /\ running
    /\ returned.call = "serve_actuator"
    /\ returned.status.code = "FailedPrecondition"
    /\ claimed # <<>>
    /\ invoked # <<>>

\* C17: subscribe called while the client runs is rejected as
\* FailedPrecondition and leaves the subscription map as it is.
SubscriptionsFrozen == [][running => subscriptions' = subscriptions]_vars

(***************************************************************************)
(* publish_batch                                                           *)
(***************************************************************************)
BatchReturned == app = "idle" /\ returned.call = "publish_batch"

Failed(id) ==
    \E i \in 1..Len(batch.rpcs) :
        batch.rpcs[i].id = id /\ batch.rpcs[i].status.code # "OK"

\* C18: publish_batch returns OK however many of its publishes failed.
BatchNeverFails == BatchReturned => returned.status = OkStatus

\* C19: when publish_batch has returned, one PublishValue was issued for
\* each distinct id of the batch, whatever the earlier ones answered; the
\* callback, if given, ran once, after the last publish, with a map whose
\* keys are the ids whose publish failed, each with the status of its own
\* publish; without a callback nothing ran.
BatchAttemptsAllAndReportsFailures ==
    /\ app = "publish_batch" => batch.calls = <<>>
    /\ BatchReturned =>
          /\ Len(batch.rpcs) = Len(batch.values)
          /\ \A i \in 1..Len(batch.values) : batch.rpcs[i].id = batch.values[i]
          /\ IF batch.callback
             THEN /\ Len(batch.calls) = 1
                  /\ DOMAIN batch.calls[1] = {id \in BatchIds : Failed(id)}
                  /\ \A i \in 1..Len(batch.rpcs) :
                        batch.rpcs[i].status.code # "OK" =>
                           batch.calls[1][batch.rpcs[i].id] = batch.rpcs[i].status
             ELSE batch.calls = <<>>

\* C19 witness: a batch of three ids with a callback has returned; the
\* first publish failed, the second succeeded, the third failed.
BatchAttemptsAllWitness ==
    /\ BatchReturned
    /\ batch.callback
    /\ Len(batch.rpcs) = 3
    /\ batch.rpcs[1].status.code # "OK"
    /\ batch.rpcs[2].status.code = "OK"
    /\ batch.rpcs[3].status.code # "OK"
    /\ batch.rpcs[1].status # batch.rpcs[3].status

\* C20: publish_batch on a client on which start() was never called returns
\* a status that is not OK.
BatchWithoutStartFails ==
    (BatchReturned /\ starts = 0) => returned.status.code # "OK"

(***************************************************************************)
(* set()                                                                   *)
(***************************************************************************)
SetReturned == app = "idle" /\ returned.call = "set"

\* C21: set() with a quality other than VALID, or with an empty value,
\* returns InvalidArgument and issues no RPC, whatever the signal class.
SetRejectsNonValid ==
    (SetReturned /\ (setcall.quality # "VALID" \/ setcall.empty)) =>
        /\ returned.status.code = "InvalidArgument"
        /\ setcall.rpcs = <<>>

\* C21 witness: an INVALID value for an actuator was given to set() on a
\* running client.
SetRejectsNonValidWitness ==
    /\ SetReturned
    /\ running
    /\ setcall.quality = "INVALID"
    /\ ~setcall.empty
    /\ setcall.signal_class = "ACTUATOR"

\* C22: set() with a VALID, non-empty value issues one RPC for the signal:
\* Actuate when the class is ACTUATOR, PublishValue otherwise; it returns
\* OK exactly when that RPC succeeded; and no registered handler is run by
\* the call.
SetRoutesByClass ==
    (SetReturned /\ setcall.quality = "VALID" /\ ~setcall.empty) =>
        /\ Len(setcall.rpcs) = 1
        /\ setcall.rpcs[1].signal_id = setcall.signal_id
        /\ setcall.rpcs[1].rpc =
              (IF setcall.signal_class = "ACTUATOR" THEN "Actuate" ELSE "PublishValue")
        /\ (returned.status.code = "OK") = (setcall.rpcs[1].status.code = "OK")
        /\ invoked = <<>>

\* C22 witness: set() of a VALID value on the id of a registered actuator,
\* with class ACTUATOR, has returned OK on a running client.
SetRoutesByClassWitness ==
    /\ SetReturned
    /\ running
    /\ Registered(setcall.signal_id)
    /\ setcall.quality = "VALID" /\ ~setcall.empty
    /\ setcall.signal_class = "ACTUATOR"
    /\ returned.status.code = "OK"

(***************************************************************************)
(* Handlers of the FSM engine: exceptions, order, calls back               *)
(***************************************************************************)
Throws(t) == pc[t] # "idle" /\ ret'[t] = "exception"

Rank(h) ==
    CASE h[1] = "on_exit" -> 1
      [] h[1] = "action" -> 2
      [] h[1] = "on_entry" -> 3

InFlight(t) == pc[t] \in {"exit", "action", "relock", "enter"}

AsyncCallsInIssueOrder ==
    [][(pc[1] # "idle" /\ event[1] = "open" /\ event[2] = "opened") =>
          ret'[2] # "false"]_vars

\* C26: a trigger() or current_state() call made from inside a transition
\* action returns to the action, and the outer trigger() then completes
\* with its transition made.
ActionCallbackReturns ==
    \A t \in Callers :
        /\ (pc[t] = "action_wait") ~> (pc[t] = "action")
        /\ (pc[t] = "action_read") ~> (pc[t] = "action")
        /\ (pc[t] \in {"action_wait", "action_read"}) ~> (pc[t] = "idle" /\ ret[t] = "true")

\* C26 witness: the outer trigger() has returned true after its action
\* called trigger(), which made a transition of its own, and current_state().
ActionCallbackWitness ==
    /\ pc[1] = "idle" /\ ret[1] = "true"
    /\ pc[2] = "idle" /\ ret[2] = "true"
    /\ nested = 2
    /\ observed # "none"

\* C27: an on_entry or on_exit handler that calls trigger() on its own
\* machine gets the call back: the handler goes on.
StateHandlerCallbackReturns ==
    \A t \in Callers :
        /\ (pc[t] = "enter_wait") ~> (pc[t] = "enter")
        /\ (pc[t] = "exit_wait") ~> (pc[t] = "exit")

\* The narrowing table as pairs (logical, physical).
NarrowingTable ==
    {<<"INT8", "INT32">>, <<"INT16", "INT32">>,
     <<"UINT8", "UINT32">>, <<"UINT16", "UINT32">>,
     <<"INT8_ARRAY", "INT32_ARRAY">>, <<"INT16_ARRAY", "INT32_ARRAY">>,
     <<"UINT8_ARRAY", "UINT32_ARRAY">>, <<"UINT16_ARRAY", "UINT32_ARRAY">>}

\* The widening pairs named beside the narrowing table.
WideningPairs ==
    {{"FLOAT", "DOUBLE"}, {"INT32", "INT64"}, {"UINT32", "UINT64"}}

\* [C28] As stated: are_physically_compatible(logical, physical) is true exactly
\* when the two types are equal, or physical is the narrowing table's image of
\* logical, or the two form a float/double, int32/int64 or uint32/uint64
\* widening pair.
PhysicallyCompatibleIffStated ==
    typecheck.called =>
        (typecheck.result <=>
            \/ typecheck.logical = typecheck.physical
            \/ <<typecheck.logical, typecheck.physical>> \in NarrowingTable
            \/ {typecheck.logical, typecheck.physical} \in WideningPairs)

\* [C28] Amended: are_physically_compatible(logical, physical) is true exactly
\* when the two types are equal or physical is the narrowing table's image of
\* logical; (INT8, INT32) is true, (INT8, INT64) and (BOOL, INT32) are false.
PhysicallyCompatibleIffNarrowing ==
    typecheck.called =>
        /\ typecheck.result <=>
               \/ typecheck.logical = typecheck.physical
               \/ <<typecheck.logical, typecheck.physical>> \in NarrowingTable
        /\ (typecheck.logical = "INT8" /\ typecheck.physical = "INT32") => typecheck.result
        /\ (typecheck.logical = "INT8" /\ typecheck.physical = "INT64") => ~typecheck.result
        /\ (typecheck.logical = "BOOL" /\ typecheck.physical = "INT32") => ~typecheck.result

PhysicallyCompatibleWitness ==
    /\ typecheck.called
    /\ typecheck.logical = "UINT16_ARRAY"
    /\ typecheck.physical = "UINT32_ARRAY"
    /\ typecheck.result


\* [C29] wait_until_ready() returns OK only if every loop the registrations
\* require had its connection machine in ACTIVE at some instant during the
\* call, and on a client that is not running it returns FailedPrecondition.
WaitReadyOkOnlyIfActive ==
    returned.call = "wait_until_ready" =>
        /\ returned.status.code = "OK" => RequiredLoops \subseteq active_during
        /\ ~running => returned.status.code = "FailedPrecondition"

\* A step in which start() returns.
StartReturns ==
    /\ returned'.call = "start"
    /\ returned' # returned \/ starts' # starts

\* A step in which stop() returns.
StopReturnsNow == app = "join_subscriber" /\ app' = "idle"

ValidImpliesValue ==
    converted.called =>
        /\ converted.qvalue.quality = "VALID" => ~is_empty(converted.qvalue.value)
        /\ ~converted.dp.has_value =>
              /\ converted.qvalue.quality = "NOT_AVAILABLE"
              /\ is_empty(converted.qvalue.value)

\* The provider loop takes an actuation batch off the stream.
BatchReceived ==
    /\ ppc = "read"
    /\ pframe.kind = "batch"
    /\ pframe' = NoFrame

\* [C32] For every actuation batch received, the provider loop invokes, in
\* batch order and once each, the handlers of the entries whose id is
\* registered, skips the others and goes on, and then writes exactly one
\* acknowledgement for the batch.
BatchHandledThenAcked ==
    [][/\ BatchReceived =>
            /\ invoked' = invoked \o SelectSeq(pframe.ids, LAMBDA id : Registered(id))
            /\ ppc' = "ack"
       /\ (ppc = "ack" /\ ppc' # "ack") => acks' = acks + 1]_vars

\* The streamed updates a callback has received in this connection attempt.
IsUpdate(k) == delivered[k][2] = "update"

\* [C33] Within one connection attempt the callback of an id receives that
\* id's streamed updates in stream order, each at most once (the positions in
\* the stream of the updates it was given increase strictly), and callbacks
\* never overlap: only the subscriber thread invokes them, one per step and
\* each to completion.
UpdatesInStreamOrder ==
    /\ [](\A j, k \in 1..Len(delivered) :
            (j < k /\ IsUpdate(j) /\ IsUpdate(k) /\ delivered[j][1] = delivered[k][1]) =>
                delivered[j][4] < delivered[k][4])
    /\ [][delivered' # delivered =>
            \/ delivered' = <<>>
            \/ /\ spc \in {"initial", "dispatch"}
               /\ Len(delivered') = Len(delivered) + 1
               /\ SubSeq(delivered', 1, Len(delivered)) = delivered]_vars

UpdatesInStreamOrderWitness ==
    \E j, k \in 1..Len(delivered) :
        /\ j < k /\ IsUpdate(j) /\ IsUpdate(k)
        /\ delivered[j][1] = delivered[k][1]
        /\ delivered[k][4] = delivered[j][4] + 1

\* A step in which a get<T> or get_dynamic call for path returns.
Resolved(path) == resolver' # resolver /\ resolver'.lookup.path = path

\* What a failed resolve leaves behind: nothing cached, NotFound, one query.
FailedResolveCachesNothing(path) ==
    (Resolved(path) /\ resolver.handle_cache[path] = NoHandle
        /\ resolver'.handle_cache[path] = NoHandle) =>
        /\ resolver'.lookup.code = "NotFound"
        /\ resolver'.queries = resolver.queries + 1
        /\ resolver'.handle_cache = resolver.handle_cache

\* [C34] As stated: after a successful resolve of a path every later
\* get<T>/get_dynamic for it returns the same handle record without another
\* metadata query; a failed resolve caches nothing, returns NotFound and
\* lets a later resolve query again.
ResolveCachedAndIdempotent ==
    [][\A path \in ResolverPaths :
        /\ (Resolved(path) /\ resolver.handle_cache[path] # NoHandle) =>
              /\ resolver'.lookup.code = "OK"
              /\ resolver'.lookup.handle = resolver.handle_cache[path]
              /\ resolver'.queries = resolver.queries
              /\ resolver'.handle_cache = resolver.handle_cache
        /\ FailedResolveCachesNothing(path)]_vars

\* [C34] Amended: after a successful resolve of a path every later
\* get_dynamic, and every later get<T> with T compatible with the cached
\* type, returns the same handle record, and a get<T> with another T returns
\* TypeMismatch, all without another metadata query; a failed resolve caches
\* nothing, returns NotFound and lets a later resolve query again.
ResolveCachedOrTypeMismatch ==
    [][\A path \in ResolverPaths :
        /\ (Resolved(path) /\ resolver.handle_cache[path] # NoHandle) =>
              /\ IF resolver'.lookup.call = "get"
                    /\ ~are_types_compatible(resolver.handle_cache[path].type,
                                             resolver'.lookup.T)
                 THEN resolver'.lookup.code = "TypeMismatch"
                 ELSE /\ resolver'.lookup.code = "OK"
                      /\ resolver'.lookup.handle = resolver.handle_cache[path]
              /\ resolver'.queries = resolver.queries
              /\ resolver'.handle_cache = resolver.handle_cache
        /\ FailedResolveCachesNothing(path)]_vars

ResolveCachedWitness ==
    /\ resolver.queries = 2
    /\ resolver.handle_cache["A"] = Handle("A", 7, "FLOAT", "SENSOR")
    /\ resolver.lookup = Lookup("get", "A", "DOUBLE", "OK", resolver.handle_cache["A"], FALSE)

\* GetValue failed for a subscribed id in the fetch of this attempt.
InitialFetchFailed == \E id \in DOMAIN fetched : ~fetched[id].ok

\* [C35] When the fetch of an initial value failed for some subscribed id,
\* the subscriber loop ends fetch_initial_values by calling
\* trigger_stream_failed, which records the failure on the Subscriber
\* machine, and does not go on to ACTIVE.
InitialFetchFailureReported ==
    [][(spc = "initial" /\ spc' # "initial" /\ InitialFetchFailed) =>
            /\ lastCall'.name = "Subscriber"
            /\ lastCall'.trigger = "stream_failed"
            /\ sm'["Subscriber"].state # "ACTIVE"]_vars

\* The loops the latest start() launched, seen when stop() joins them.
LoopsStarted ==
    {n \in ConnNames : \/ n = "Provider" /\ actuator_handlers # <<>>
                       \/ n = "Subscriber" /\ subscriptions # {}}

\* [C36] When stop() returns, the connection machine of every loop that had
\* been started is in DISCONNECTED, whatever state it was in when stop() was
\* called.
StopLeavesDisconnected ==
    [][StopReturnsNow =>
            \A n \in LoopsStarted : sm'[n].state = "DISCONNECTED"]_vars

\* The subscriber thread begins an invocation of the callback it copied
\* for id.
InvocationBegins(id) ==
    /\ held_callback = id
    /\ Len(delivered') = Len(delivered) + 1
    /\ delivered'[Len(delivered')][1] = id

\* [C37] Once unsubscribe(id) has returned true, no invocation of the
\* callback registered for id begins.  An id leaves subscriptions only in the
\* step on which unsubscribe(id) returns true, and comes back only with a
\* new subscribe(id), which is not made while the client runs.
UnsubscribedCallbackNotInvoked ==
    [][\A id \in SignalIds :
            InvocationBegins(id) => id \in subscriptions]_vars

\* [C38] A clear_subscriptions() called while the client is running returns,
\* leaving the client stopped and the subscription map empty.
ClearSubscriptionsReturns ==
    (subscriptions_mutex = "clear" /\ app = "cancel_provider") ~>
        (/\ returned = Returned("clear_subscriptions", OkStatus)
         /\ app = "idle"
         /\ ~running
         /\ subscriptions = {})

\* The Subscriber machine's state that goes with each position of the
\* subscriber thread.
PhaseStates(at) ==
    CASE at \in {"none", "start", "done"} -> {"DISCONNECTED"}
      [] at = "top" -> {"CONNECTING", "FAILED"}
      [] at \in {"backoff", "wait"} -> {"CONNECTING"}
      [] at \in {"subscribe", "fetch", "initial"} -> {"ESTABLISHING"}
      [] at \in {"loop", "read", "dispatch", "finish"} -> {"ACTIVE"}
      [] at = "exit" -> {"CONNECTING", "ESTABLISHING", "ACTIVE", "FAILED"}

\* [C39] Every trigger_* call of the subscriber loop is issued in a state
\* that has an edge for it, and the Subscriber machine's state always
\* mirrors the loop phase: CONNECTING while backing off or waiting for the
\* channel, ESTABLISHING while subscribing and fetching initial values,
\* ACTIVE while reading the stream, FAILED from a failure until the next
\* retry, DISCONNECTED once the loop has exited.
SubscriberTriggersHaveEdges ==
    /\ [](sm["Subscriber"].state \in PhaseStates(spc))
    /\ [](spc = "top" => (sm["Subscriber"].state = "FAILED" <=> retry_attempt > 0))
    /\ [][sm'["Subscriber"] # sm["Subscriber"] \/ spc' # spc =>
            (lastCall' # lastCall =>
                /\ lastCall'.name = "Subscriber"
                /\ Find(ConnTransitions,
                        make_transition_key(sm["Subscriber"].state,
                                            lastCall'.trigger)) # <<>>)]_vars

\* A stream that had become ACTIVE has ended, and the next attempt's
\* trigger_retry has taken the machine from FAILED back to CONNECTING.
SubscriberTriggersWitness ==
    /\ spc = "backoff"
    /\ lastCall = [name |-> "Subscriber", trigger |-> "retry",
                   before |-> lastCall.before]
    /\ lastCall.before.state = "FAILED"
    /\ failure["Subscriber"] = StreamError
    /\ sm["Subscriber"].state = "CONNECTING"

====
